---- MODULE Spec2Model ----
(***************************************************************************)
(* TradeTrackerWeb: the ingestion pipeline of server/routes.ts (the        *)
(* fixed-index revision and the fuzzy-header revision of /api/parse-paste  *)
(* and /api/upload) and the reconciliation summary of the dashboard page.  *)
(*                                                                         *)
(* JavaScript values are tagged records: a string is [t |-> "s", s |-> _], *)
(* a number is [t |-> "n", neg, int, milli] (value = +-(int + milli/1000)),*)
(* null and undefined are [t |-> "null"] and [t |-> "undef"].  Strings are *)
(* TLA+ strings, read character by character with SubSeq.  On the server a  *)
(* fraction of a day is an integer number of tenths of a second, an hours  *)
(* value is a number of 1/36000 hours before rounding and a number of      *)
(* hundredths after Math.round(x * 100) / 100.  The sums of the dashboard  *)
(* are computed on IEEE 754 doubles, rounding included.                    *)
(***************************************************************************)
EXTENDS Integers, Sequences, FiniteSets, TLC

VARIABLES
    tz,         \* host time-zone offset in minutes east of UTC (Date uses it)
    request,    \* the HTTP request the server is handling
    response,   \* the JSON response sent for it, or the "none" marker
    timeIn,     \* arguments handed to calculateHoursFromTimes
    timeOut,    \* what calculateHoursFromTimes computed for them
    uploaded,   \* the Trade list handed to the dashboard's onDataUpload
    trades,     \* Dashboard state: const [trades, setTrades] = useState([])
    filters,    \* Dashboard state: selectedName, startDate, endDate,
                \* searchQuery, comparisonMode, selectedForComparison
    isLoading,  \* Dashboard state: const [isLoading, setIsLoading]
    mutations   \* the mutations of FileUpload, in the order of mutate()

vars == <<tz, request, response, timeIn, timeOut, uploaded, trades, filters,
          isLoading, mutations>>

\* const name = v; F(name)
With(v, F(_)) == F(v)

----------------------------------------------------------------------------
(* Bounds *)

MaxRows   == 2      \* data rows in one batch
MaxTrades == 3      \* trades in one list handed to the dashboard

----------------------------------------------------------------------------
(* JavaScript values *)

Str(s)  == [t |-> "s", s |-> s]
Num(neg, int, milli) == [t |-> "n", neg |-> neg, int |-> int, milli |-> milli]
Null    == [t |-> "null"]
Undef   == [t |-> "undef"]
NaN     == [t |-> "nan"]

IsStr(v) == v.t = "s"
IsNum(v) == v.t = "n"

\* JavaScript truthiness: "", 0, null, undefined and NaN are falsy
Truthy(v) ==
    CASE v.t = "s" -> v.s /= ""
      [] v.t = "n" -> v.int /= 0 \/ v.milli /= 0
      [] OTHER     -> FALSE

----------------------------------------------------------------------------
(* String primitives of the JavaScript runtime *)

\* String.prototype.substring with 1-based inclusive bounds: positions outside
\* the string contribute nothing
Sub(s, i, j) ==
    IF i > j \/ i > Len(s) \/ j < 1 THEN ""
    ELSE SubSeq(s, IF i < 1 THEN 1 ELSE i, IF j > Len(s) THEN Len(s) ELSE j)

Ch(s, i) == Sub(s, i, i)

LowerChars == "abcdefghijklmnopqrstuvwxyz"
UpperChars == "ABCDEFGHIJKLMNOPQRSTUVWXYZ"
DigitChars == "0123456789"

\* character tables
SpaceSet == {" ", "\t", "\n", "\r"}
DigitSet == {Ch(DigitChars, i) : i \in 1..10}
LowerSet == {Ch(LowerChars, i) : i \in 1..26}
UpperSet == {Ch(UpperChars, i) : i \in 1..26}
DigitMap == [c \in DigitSet |-> (CHOOSE i \in 1..10 : Ch(DigitChars, i) = c) - 1]
UpperMap == [c \in LowerSet |->
                Ch(UpperChars, CHOOSE i \in 1..26 : Ch(LowerChars, i) = c)]
LowerMap == [c \in UpperSet |->
                Ch(LowerChars, CHOOSE i \in 1..26 : Ch(UpperChars, i) = c)]

IsSpace(c)  == c \in SpaceSet
IsDigit(c)  == c \in DigitSet
IsLetter(c) == c \in LowerSet \/ c \in UpperSet
DigitVal(c) == DigitMap[c]

UpperCh(c) == IF c \in LowerSet THEN UpperMap[c] ELSE c

LowerCh(c) == IF c \in UpperSet THEN LowerMap[c] ELSE c

RECURSIVE toUpperCase(_)
toUpperCase(s) ==
    IF s = "" THEN "" ELSE UpperCh(Ch(s, 1)) \o toUpperCase(Tail(s))

RECURSIVE toLowerCase(_)
toLowerCase(s) ==
    IF s = "" THEN "" ELSE LowerCh(Ch(s, 1)) \o toLowerCase(Tail(s))

RECURSIVE trimStart(_)
trimStart(s) ==
    IF s /= "" /\ IsSpace(Ch(s, 1)) THEN trimStart(Tail(s)) ELSE s

RECURSIVE trimEnd(_)
trimEnd(s) ==
    IF s /= "" /\ IsSpace(Ch(s, Len(s)))
    THEN trimEnd(Sub(s, 1, Len(s) - 1)) ELSE s

trim(s) == trimEnd(trimStart(s))

includes(s, sub) ==
    \E i \in 1..(Len(s) - Len(sub) + 1) : Sub(s, i, i + Len(sub) - 1) = sub

AllDigits(s) == s /= "" /\ \A i \in 1..Len(s) : IsDigit(Ch(s, i))

RECURSIVE parseInt(_)
parseInt(s) ==
    IF s = "" THEN 0
    ELSE parseInt(Sub(s, 1, Len(s) - 1)) * 10 + DigitVal(Ch(s, Len(s)))

\* String.prototype.split on a one-character separator
\* position of the first sep in s at or after i, 0 when there is none
indexOf(s, sep, i) ==
    With({j \in i..Len(s) : Ch(s, j) = sep}, LAMBDA found :
        IF found = {} THEN 0
        ELSE CHOOSE j \in found : \A k \in found : j <= k)

RECURSIVE split(_, _)
split(s, sep) ==
    With(indexOf(s, sep, 1), LAMBDA i :
        IF i = 0 THEN <<s>>
        ELSE <<Sub(s, 1, i - 1)>> \o split(Sub(s, i + 1, Len(s)), sep))

\* split(/\r?\n/): a line break is "\n", with one "\r" before it swallowed
splitLines(s) ==
    With(split(s, "\n"), LAMBDA raw :
        [i \in 1..Len(raw) |->
            IF i < Len(raw) /\ raw[i] /= "" /\ Ch(raw[i], Len(raw[i])) = "\r"
            THEN Sub(raw[i], 1, Len(raw[i]) - 1) ELSE raw[i]])

RECURSIVE join(_, _)
join(cells, sep) ==
    IF cells = <<>> THEN ""
    ELSE IF Len(cells) = 1 THEN cells[1]
    ELSE cells[1] \o sep \o join(Tail(cells), sep)

RECURSIVE natToString(_)
natToString(n) ==
    IF n < 10 THEN Ch(DigitChars, n + 1)
    ELSE natToString(n \div 10) \o Ch(DigitChars, (n % 10) + 1)

pad(n, width) ==
    Sub("000000", 1, width - Len(natToString(n))) \o natToString(n)

----------------------------------------------------------------------------
(* Numbers.  Day  = tenths of a second in a day, so a fraction of a day f  *)
(* is the integer f * Day; Hour = the same unit seen as hours (f * 24).    *)

Day  == 864000
Hour == 36000

RECURSIVE leadingDigits(_)
leadingDigits(s) ==
    IF s /= "" /\ IsDigit(Ch(s, 1))
    THEN Ch(s, 1) \o leadingDigits(Tail(s)) ELSE ""

\* parseFloat: optional white space and sign, digits, optional fraction; the
\* value is returned in thousandths (three fraction digits are kept), NaN
\* when no digit is found.  Exponents are not modelled.
parseFloat(s) ==
    With(trimStart(s), LAMBDA s1 :
    With(IF s1 /= "" /\ Ch(s1, 1) \in {"-", "+"} THEN Tail(s1) ELSE s1,
         LAMBDA s2 :
    With(leadingDigits(s2), LAMBDA ip :
    With(Sub(s2, Len(ip) + 1, Len(s2)), LAMBDA rest :
    With(IF rest /= "" /\ Ch(rest, 1) = "." THEN leadingDigits(Tail(rest))
         ELSE "", LAMBDA fp :
        IF ip = "" /\ fp = "" THEN NaN
        ELSE [t |-> "f",
              milli |-> (IF s1 /= "" /\ Ch(s1, 1) = "-" THEN 0 - 1 ELSE 1)
                        * (parseInt(ip) * 1000
                           + parseInt(Sub(fp \o "000", 1, 3)))])))))

\* String(number): shortest decimal text of a number cell
numToString(v) ==
    With(pad(v.milli, 3), LAMBDA frac :
    With(IF Ch(frac, 3) = "0" THEN Sub(frac, 1, 2) ELSE frac, LAMBDA f1 :
    With(IF f1 /= frac /\ Ch(f1, 2) = "0" THEN Sub(f1, 1, 1) ELSE f1,
         LAMBDA f2 :
        (IF v.neg /\ (v.int /= 0 \/ v.milli /= 0) THEN "-" ELSE "")
        \o natToString(v.int) \o (IF f2 = "0" THEN "" ELSE "." \o f2))))

\* String(value) for the cell values a sheet or a split line can hold
String(v) ==
    CASE v.t = "s"     -> v.s
      [] v.t = "n"     -> numToString(v)
      [] v.t = "null"  -> "null"
      [] OTHER         -> "undefined"

----------------------------------------------------------------------------
(* Time Parser: parseTimeString, in its two revisions *)

InvalidTime == 0 - Day     \* the -1 returned for an unparseable time

\* (\d{1,2}):(\d{2})(?::(\d{2}))?\s*(AM|PM)? matched at the start of s.
\* anchored = the pattern ends with $.  No match gives [ok |-> FALSE].
timeMatch(s, anchored) ==
    With(IF Len(s) >= 3 /\ IsDigit(Ch(s, 1)) /\ IsDigit(Ch(s, 2))
            /\ Ch(s, 3) = ":" THEN 2
         ELSE IF Len(s) >= 2 /\ IsDigit(Ch(s, 1)) /\ Ch(s, 2) = ":"
         THEN 1 ELSE 0, LAMBDA hl :
    With(hl > 0 /\ Len(s) >= hl + 3 /\ AllDigits(Sub(s, hl + 2, hl + 3)),
         LAMBDA mOk :
    With(mOk /\ Len(s) >= hl + 6 /\ Ch(s, hl + 4) = ":"
             /\ AllDigits(Sub(s, hl + 5, hl + 6)), LAMBDA sOk :
    With(trimStart(Sub(s, hl + 7, Len(s))), LAMBDA tailSec :
    With(trimStart(Sub(s, hl + 4, Len(s))), LAMBDA tailMin :
    \* the seconds group is optional: the regex backtracks to the match
    \* without it when the anchored tail does not fit
    With(sOk /\ (~anchored \/ tailSec \in {"", "AM", "PM"}), LAMBDA useSec :
    With(IF useSec THEN tailSec ELSE tailMin, LAMBDA tail :
        IF ~(mOk /\ (~anchored \/ useSec \/ tailMin \in {"", "AM", "PM"}))
        THEN [ok |-> FALSE]
        ELSE [ok      |-> TRUE,
              hours   |-> parseInt(Sub(s, 1, hl)),
              minutes |-> parseInt(Sub(s, hl + 2, hl + 3)),
              seconds |-> IF useSec THEN parseInt(Sub(s, hl + 5, hl + 6))
                          ELSE 0,
              period  |-> IF Sub(tail, 1, 2) \in {"AM", "PM"}
                          THEN Sub(tail, 1, 2) ELSE ""])))))))

\* \d+[\/\-]\d+[\/\-]\d+\s+ matched at position i of s: the position right
\* after the white space, or 0 when there is no match at i
datePrefixEnd(s, i) ==
    With(i + Len(leadingDigits(Sub(s, i, Len(s)))), LAMBDA p1 :
    With(p1 + 1 + Len(leadingDigits(Sub(s, p1 + 1, Len(s)))), LAMBDA p2 :
    With(p2 + 1 + Len(leadingDigits(Sub(s, p2 + 1, Len(s)))), LAMBDA p3 :
        IF /\ p1 > i /\ Ch(s, p1) \in {"/", "-"}
           /\ p2 > p1 + 1 /\ Ch(s, p2) \in {"/", "-"}
           /\ p3 > p2 + 1 /\ IsSpace(Ch(s, p3))
        THEN Len(s) - Len(trimStart(Sub(s, p3, Len(s)))) + 1
        ELSE 0)))

\* str.match(/\d+[\/\-]\d+[\/\-]\d+\s+(\d{1,2}):(\d{2})(?::(\d{2}))?\s*(AM|PM)?/i):
\* the match at the leftmost position, at or after i, where the whole
\* pattern matches
RECURSIVE dateTimeMatchFrom(_, _)
dateTimeMatchFrom(s, i) ==
    IF i > Len(s) THEN [ok |-> FALSE]
    ELSE With(datePrefixEnd(s, i), LAMBDA e :
         With(IF e > 0 THEN timeMatch(Sub(s, e, Len(s)), FALSE)
              ELSE [ok |-> FALSE], LAMBDA m :
             IF m.ok THEN m ELSE dateTimeMatchFrom(s, i + 1)))

dateTimeMatch(s) == dateTimeMatchFrom(s, 1)

\* hours after the AM/PM adjustment
to24(m) ==
    IF m.period = "PM" /\ m.hours /= 12 THEN m.hours + 12
    ELSE IF m.period = "AM" /\ m.hours = 12 THEN 0
    ELSE m.hours

\* (hours + minutes / 60 + seconds / 3600) / 24, in tenths of a second
timeOfDay(m) == (to24(m) * 3600 + m.minutes * 60 + m.seconds) * 10

\* the number branch shared by both revisions
decimalTime(str) ==
    With(parseFloat(str), LAMBDA num :
        IF num.t = "f" /\ num.milli >= 0 /\ num.milli <= 1000
        THEN num.milli * (Day \div 1000)
        ELSE InvalidTime)

timeOnly(str) ==
    With(timeMatch(str, TRUE), LAMBDA ampmMatch :
        IF ampmMatch.ok
        THEN IF ampmMatch.hours > 23 \/ ampmMatch.minutes > 59
                \/ ampmMatch.seconds > 59
             THEN InvalidTime
             ELSE timeOfDay(ampmMatch)
        ELSE decimalTime(str))

\* parseTimeString of the fixed-index revision (date+time text understood)
parseTimeString(timeStr) ==
    IF timeStr = "" \/ trim(timeStr) = "" THEN InvalidTime
    ELSE With(toUpperCase(trim(timeStr)), LAMBDA str :
         With(dateTimeMatch(str), LAMBDA dt :
             IF dt.ok THEN timeOfDay(dt) ELSE timeOnly(str)))

\* parseTimeString of the fuzzy-header revision (no date+time branch)
parseTimeStringFuzzy(timeStr) ==
    IF timeStr = "" \/ trim(timeStr) = "" THEN InvalidTime
    ELSE timeOnly(toUpperCase(trim(timeStr)))

----------------------------------------------------------------------------
(* Duration Calculator: calculateHoursFromTimes *)

\* the fraction of a day read from one time cell, InvalidTime when the cell
\* is neither a number nor a parseable string; rev selects the revision of
\* parseTimeString the caller is compiled with
timeDecimal(v, rev) ==
    IF IsNum(v)
    THEN (IF v.neg THEN 0 - v.milli ELSE v.milli) * (Day \div 1000)
    ELSE IF IsStr(v)
    THEN IF rev = "fixed" THEN parseTimeString(v.s)
         ELSE parseTimeStringFuzzy(v.s)
    ELSE InvalidTime

IsMissing(v) == v.t \in {"null", "undef"} \/ (IsStr(v) /\ v.s = "")

\* the calculator without its cap
capAt24Off(hoursDiff) == hoursDiff

capAt24(hoursDiff) == IF hoursDiff > 24 * Hour THEN 24 * Hour ELSE hoursDiff

\* the overnight step with the sign dropped in place of the wraparound
wrapOvernightAbs(hoursDiff) ==
    IF hoursDiff < 0 THEN 0 - hoursDiff ELSE hoursDiff

wrapOvernight(hoursDiff) ==
    IF hoursDiff < 0 THEN hoursDiff + 24 * Hour ELSE hoursDiff

\* hours between the two times, in 1/36000 hours; 0 when either is unusable
calculateHoursFromTimes(startTime, endTime, rev) ==
    IF IsMissing(startTime) \/ IsMissing(endTime) THEN 0
    ELSE With(timeDecimal(startTime, rev), LAMBDA startDecimal :
         With(timeDecimal(endTime, rev), LAMBDA endDecimal :
             IF startDecimal = InvalidTime \/ endDecimal = InvalidTime THEN 0
             ELSE capAt24(wrapOvernight(endDecimal - startDecimal))))

\* Math.round(hoursNum * 100) / 100 for hoursNum in 1/36000 hours: the
\* stored hours value in hundredths (Math.round rounds half up)
roundHours(hoursNum) == (hoursNum + 180) \div 360

\* String(directHours).replace(/[^\d.-]/g, "")
RECURSIVE stripNonNumeric(_)
stripNonNumeric(s) ==
    IF s = "" THEN ""
    ELSE (IF IsDigit(Ch(s, 1)) \/ Ch(s, 1) \in {".", "-"} THEN Ch(s, 1) ELSE "")
         \o stripNonNumeric(Tail(s))

\* parseFloat(String(directHours).replace(...)) in 1/36000 hours, or NaN
directHoursNum(directHours) ==
    With(parseFloat(stripNonNumeric(String(directHours))), LAMBDA f :
        IF f.t = "f" THEN [t |-> "h", v |-> f.milli * (Hour \div 1000)]
        ELSE NaN)

----------------------------------------------------------------------------
(* Date Normalizer: parseDate, with the Date object of the runtime *)

\* days from 1970-01-01 to the civil date y-m-d (proleptic Gregorian)
daysFromCivil(y, m, d) ==
    With(IF m <= 2 THEN y - 1 ELSE y, LAMBDA yy :
    With(yy \div 400, LAMBDA era :
    With(yy - era * 400, LAMBDA yoe :
        era * 146097 + yoe * 365 + yoe \div 4 - yoe \div 100
        + (153 * ((m + 9) % 12) + 2) \div 5 + d - 1 - 719468)))

civilFromDays(z0) ==
    With((z0 + 719468) \div 146097, LAMBDA era :
    With(z0 + 719468 - era * 146097, LAMBDA doe :
    With((doe - doe \div 1460 + doe \div 36524 - doe \div 146096) \div 365,
         LAMBDA yoe :
    With(doe - (365 * yoe + yoe \div 4 - yoe \div 100), LAMBDA doy :
    With((5 * doy + 2) \div 153, LAMBDA mp :
    With(IF mp < 10 THEN mp + 3 ELSE mp - 9, LAMBDA m :
        [year  |-> yoe + era * 400 + (IF m <= 2 THEN 1 ELSE 0),
         month |-> m,
         day   |-> doy - (153 * mp + 2) \div 5 + 1]))))))

MaxDateDay == 100000000   \* a Date holds at most +-8.64e15 ms

\* an instant is [day, tick]: whole days since 1970-01-01 UTC and tenths of
\* a second into that day; NaN is the Invalid Date
instant(day, ticks) ==
    With(day + ticks \div Day, LAMBDA d :
    With(ticks % Day, LAMBDA r :
        IF d > MaxDateDay \/ d < 0 - MaxDateDay \/ (d = MaxDateDay /\ r > 0)
        THEN NaN
        ELSE [t |-> "date", day |-> d, tick |-> r]))

\* new Date(year, monthIndex, day): midnight in the host's zone
localMidnight(y, m, d, zone) == instant(daysFromCivil(y, m, d), 0 - zone * 600)

\* toISOString().split("T")[0]: years outside 0..9999 print with a sign and
\* six digits
\* isoDate without the zero padding of month and day
isoDateUnpadded(inst) ==
    With(civilFromDays(inst.day), LAMBDA c :
        natToString(c.year) \o "-" \o natToString(c.month) \o "-"
        \o natToString(c.day))

isoDate(inst) ==
    With(civilFromDays(inst.day), LAMBDA c :
        (IF c.year >= 0 /\ c.year <= 9999 THEN pad(c.year, 4)
         ELSE IF c.year > 9999 THEN "+" \o pad(c.year, 6)
         ELSE "-" \o pad(0 - c.year, 6))
        \o "-" \o pad(c.month, 2) \o "-" \o pad(c.day, 2))

\* new Date(text): the two shapes of date text the model reads; YYYY-MM-DD
\* is midnight UTC, M/D/YYYY is midnight in the host's zone.  Any other
\* text counts as unparseable.
newDate(text, zone) ==
    With(split(trim(text), "/"), LAMBDA parts :
    With(split(trim(text), "-"), LAMBDA iso :
        IF /\ Len(iso) = 3 /\ Len(iso[1]) = 4 /\ Len(iso[2]) = 2
           /\ Len(iso[3]) = 2 /\ \A i \in 1..3 : AllDigits(iso[i])
        THEN IF parseInt(iso[2]) \in 1..12 /\ parseInt(iso[3]) \in 1..31
             THEN instant(daysFromCivil(parseInt(iso[1]), parseInt(iso[2]), 1)
                            + parseInt(iso[3]) - 1, 0)
             ELSE NaN
        ELSE IF /\ Len(parts) = 3 /\ \A i \in 1..3 : AllDigits(parts[i])
                /\ Len(parts[1]) <= 2 /\ Len(parts[2]) <= 2
                /\ Len(parts[3]) = 4
        THEN IF parseInt(parts[1]) \in 1..12 /\ parseInt(parts[2]) \in 1..31
             THEN instant(daysFromCivil(parseInt(parts[3]), parseInt(parts[1]), 1)
                            + parseInt(parts[2]) - 1, 0 - zone * 600)
             ELSE NaN
        ELSE NaN))

\* serialDate counted from 1899-12-31, which makes serial 1 the first of
\* January 1900
serialDateFrom1900(dateValue, zone) ==
    With(IF dateValue.neg THEN 0 - 1 ELSE 1, LAMBDA sign :
        instant(daysFromCivil(1899, 12, 31) + sign * dateValue.int,
                sign * dateValue.milli * (Day \div 1000) - zone * 600))

\* the serial-date branch: new Date(1899, 11, 30) plus dateValue days
serialDate(dateValue, zone) ==
    With(IF dateValue.neg THEN 0 - 1 ELSE 1, LAMBDA sign :
        instant(daysFromCivil(1899, 12, 30) + sign * dateValue.int,
                sign * dateValue.milli * (Day \div 1000) - zone * 600))

Throw == [t |-> "throw"]     \* RangeError: Invalid time value

\* parseDate: the date text of a Trade, or Throw when toISOString throws
parseDate(dateValue, zone) ==
    IF ~Truthy(dateValue) THEN Str("")
    ELSE IF IsStr(dateValue)
    THEN With(newDate(dateValue.s, zone), LAMBDA date :
             IF date /= NaN THEN Str(isoDate(date)) ELSE dateValue)
    ELSE IF IsNum(dateValue)
    THEN With(serialDate(dateValue, zone), LAMBDA date :
             IF date /= NaN THEN Str(isoDate(date)) ELSE Throw)
    ELSE Str(String(dateValue))

----------------------------------------------------------------------------
(* Row Validator / Trade Builder, shared by the four entry points *)

\* /^[a-zA-Z\s]+$/.test(s)
looksLikeHeader(s) ==
    s /= "" /\ \A i \in 1..Len(s) : IsLetter(Ch(s, i)) \/ IsSpace(Ch(s, i))

\* String(person).trim().toUpperCase()
canonicalName(person) == toUpperCase(trim(String(person)))

Skip == [kind |-> "skip"]

\* pushTrade with hoursNum >= 0 in place of hoursNum > 0
pushTradeNonNegative(person1, person2, date, hoursNum, zone) ==
    IF hoursNum /= NaN /\ hoursNum.v >= 0
    THEN With(parseDate(date, zone), LAMBDA d :
             IF d = Throw THEN [kind |-> "throw"]
             ELSE [kind  |-> "accept",
                   trade |-> [person1 |-> canonicalName(person1),
                              person2 |-> canonicalName(person2),
                              date    |-> d.s,
                              hours   |-> roundHours(hoursNum.v)]])
    ELSE Skip

\* the body of  if (!isNaN(hoursNum) && hoursNum > 0) { trades.push({...}) }
\* hoursNum is NaN or [t |-> "h", v |-> hours in 1/36000]
pushTrade(person1, person2, date, hoursNum, zone) ==
    IF hoursNum /= NaN /\ hoursNum.v > 0
    THEN With(parseDate(date, zone), LAMBDA d :
             IF d = Throw THEN [kind |-> "throw"]
             ELSE [kind  |-> "accept",
                   trade |-> [person1 |-> canonicalName(person1),
                              person2 |-> canonicalName(person2),
                              date    |-> d.s,
                              hours   |-> roundHours(hoursNum.v)]])
    ELSE Skip

hoursFromTimes(startTime, endTime, rev) ==
    [t |-> "h", v |-> calculateHoursFromTimes(startTime, endTime, rev)]

\* cells[i] of a JavaScript array, i counted from 0
cellAt(cells, i) ==
    IF i >= 0 /\ i < Len(cells) THEN cells[i + 1] ELSE Undef

\* cells[i]?.trim() || ""  on an array of strings
trimmedOrEmpty(cells, i) ==
    IF i >= 0 /\ i < Len(cells) THEN Str(trim(cells[i + 1])) ELSE Str("")

\* the loop with trades.unshift in place of trades.push
RECURSIVE collectUnshift(_, _, _)
collectUnshift(outcomes, i, acc) ==
    IF i > Len(outcomes) THEN [thrown |-> FALSE, trades |-> acc]
    ELSE IF outcomes[i].kind = "throw" THEN [thrown |-> TRUE, trades |-> <<>>]
    ELSE IF outcomes[i].kind = "accept"
    THEN collectUnshift(outcomes, i + 1, <<outcomes[i].trade>> \o acc)
    ELSE collectUnshift(outcomes, i + 1, acc)

\* the trades.push loop over the row outcomes: an exception thrown while a
\* row is built leaves the loop and discards what was collected
RECURSIVE collect(_, _, _)
collect(outcomes, i, acc) ==
    IF i > Len(outcomes) THEN [thrown |-> FALSE, trades |-> acc]
    ELSE IF outcomes[i].kind = "throw" THEN [thrown |-> TRUE, trades |-> <<>>]
    ELSE IF outcomes[i].kind = "accept"
    THEN collect(outcomes, i + 1, Append(acc, outcomes[i].trade))
    ELSE collect(outcomes, i + 1, acc)

\* trades.map((trade) => ({ id: randomUUID(), ...trade })): the fresh
\* identifier is modelled by the position in the batch
withIds(list) ==
    [i \in 1..Len(list) |->
        [id |-> i, person1 |-> list[i].person1, date |-> list[i].date,
         hours |-> list[i].hours, person2 |-> list[i].person2]]

----------------------------------------------------------------------------
(* Responses *)

MsgEmptyInput     == "No data provided. Please paste your Excel data."
MsgNoData         == "No data found in Excel file"
MsgMissingColumns == "Could not find required columns."
MsgNoValidRows    == "No valid trade data found."
MsgFault          == "Invalid time value"

failure(status, message) ==
    [status |-> status, success |-> FALSE, message |-> message]

\* respond without the trades.length === 0 check
respondUnchecked(result) ==
    IF result.thrown THEN failure(500, MsgFault)
    ELSE [status  |-> 200, success |-> TRUE,
          trades  |-> withIds(result.trades),
          message |-> "Successfully loaded "
                      \o natToString(Len(result.trades)) \o " trades"]

\* the tail every handler shares: 400 when nothing was accepted, 500 when
\* the loop threw, else the trades with their identifiers
respond(result) ==
    IF result.thrown THEN failure(500, MsgFault)
    ELSE IF Len(result.trades) = 0 THEN failure(400, MsgNoValidRows)
    ELSE [status  |-> 200, success |-> TRUE,
          trades  |-> withIds(result.trades),
          message |-> "Successfully loaded "
                      \o natToString(Len(result.trades)) \o " trades"]

----------------------------------------------------------------------------
(* Fixed-index revision *)

PERSON1_COL    == 4
DATE_COL       == 5
START_TIME_COL == 6
END_TIME_COL   == 7
PERSON2_COL    == 10

\* one pass of the /api/parse-paste loop body
\* if (person1 && person2 && date) { ... trades.push(...) }
rowOutcome(person1, person2, date, hoursNum, zone) ==
    IF Truthy(person1) /\ Truthy(person2) /\ Truthy(date)
    THEN pushTrade(person1, person2, date, hoursNum, zone)
    ELSE Skip

\* one pass of the /api/parse-paste loop body
pasteFixedRow(rawLine, delimiter, zone) ==
    IF trim(rawLine) = "" THEN Skip
    ELSE With(split(trim(rawLine), delimiter), LAMBDA cells :
        IF looksLikeHeader(trimmedOrEmpty(cells, DATE_COL).s) THEN Skip
        ELSE rowOutcome(trimmedOrEmpty(cells, PERSON1_COL),
                        trimmedOrEmpty(cells, PERSON2_COL),
                        trimmedOrEmpty(cells, DATE_COL),
                        hoursFromTimes(trimmedOrEmpty(cells, START_TIME_COL),
                                       trimmedOrEmpty(cells, END_TIME_COL),
                                       "fixed"),
                        zone))

\* one pass of the /api/upload loop body; row is an array of cell values
uploadFixedRow(row, zone) ==
    IF Len(row) = 0 THEN Skip
    ELSE IF IsStr(cellAt(row, DATE_COL))
            /\ looksLikeHeader(trim(cellAt(row, DATE_COL).s)) THEN Skip
    ELSE rowOutcome(cellAt(row, PERSON1_COL), cellAt(row, PERSON2_COL),
                    cellAt(row, DATE_COL),
                    hoursFromTimes(cellAt(row, START_TIME_COL),
                                   cellAt(row, END_TIME_COL), "fixed"),
                    zone)

detectDelimiter(lines) == IF includes(lines[1], "\t") THEN "\t" ELSE ","

\* what the /api/parse-paste loop does with each line of the text
pasteFixedOutcomes(text, zone) ==
    With(splitLines(trim(text)), LAMBDA lines :
        [i \in 1..Len(lines) |->
            pasteFixedRow(lines[i], detectDelimiter(lines), zone)])

\* POST /api/parse-paste, fixed-index revision
parsePasteFixed(text, zone) ==
    IF text = "" \/ trim(text) = "" THEN failure(400, MsgEmptyInput)
    ELSE respond(collect(pasteFixedOutcomes(text, zone), 1, <<>>))

\* what the /api/upload loop does with each row of rawData
uploadFixedOutcomes(rawData, zone) ==
    [i \in 1..Len(rawData) |-> uploadFixedRow(rawData[i], zone)]

\* POST /api/upload, fixed-index revision; rawData is the array of arrays
\* sheet_to_json(worksheet, {header: 1, raw: true, defval: ""}) returned
uploadFixed(rawData, zone) ==
    IF Len(rawData) = 0 THEN failure(400, MsgNoData)
    ELSE respond(collect(uploadFixedOutcomes(rawData, zone), 1, <<>>))

----------------------------------------------------------------------------
(* Fuzzy-header revision *)

Person1Names   == <<"person 1", "person1", "name1", "employee1", "from", "employee">>
Person2Names   == <<"person 2", "person2", "name2", "employee2", "to", "partner">>
DateNames      == <<"trade date", "date", "shift date">>
StartTimeNames == <<"trade start time", "start time", "start", "time start">>
EndTimeNames   == <<"trade end time", "end time", "end", "time end">>
HoursNames     == <<"hours", "hour", "duration">>

\* header === name only, without header.includes(name)
matchesAnyExactly(header, possibleNames) ==
    \E n \in 1..Len(possibleNames) : header = possibleNames[n]

\* header === name || header.includes(name), for some name of the list
matchesAny(header, possibleNames) ==
    \E n \in 1..Len(possibleNames) :
        header = possibleNames[n] \/ includes(header, possibleNames[n])

\* findColumnIndex: 0-based index of the first matching header, -1 if none;
\* the scan starts at the 0-based index i
RECURSIVE findColumnIndexFrom(_, _, _)
findColumnIndexFrom(headers, possibleNames, i) ==
    IF i >= Len(headers) THEN 0 - 1
    ELSE IF matchesAny(trim(toLowerCase(headers[i + 1])), possibleNames)
    THEN i
    ELSE findColumnIndexFrom(headers, possibleNames, i + 1)

findColumnIndex(headers, possibleNames) ==
    findColumnIndexFrom(headers, possibleNames, 0)

\* findColumnValue: the value under the first matching key of a row object
\* (a sequence of <<key, value>> in Object.keys order), null if none; the
\* scan starts at the i-th key
RECURSIVE findColumnValueFrom(_, _, _)
findColumnValueFrom(row, possibleNames, i) ==
    IF i > Len(row) THEN Null
    ELSE IF matchesAny(trim(toLowerCase(row[i][1])), possibleNames)
    THEN row[i][2]
    ELSE findColumnValueFrom(row, possibleNames, i + 1)

findColumnValue(row, possibleNames) ==
    findColumnValueFrom(row, possibleNames, 1)

\* cells[i] || ""
cellOrEmpty(cells, i) ==
    IF Truthy(cellAt(cells, i)) THEN cellAt(cells, i) ELSE Str("")

\* one pass of the /api/parse-paste loop body; cols holds the six indices
\* index !== -1 ? cells[index] : null
optionalCell(cells, index) ==
    IF index /= 0 - 1 THEN cellAt(cells, index) ELSE Null

\* line.split(delimiter).map(c => c.trim())
trimmedCells(line, delimiter) ==
    With(split(line, delimiter), LAMBDA parts :
        [i \in 1..Len(parts) |-> Str(trim(parts[i]))])

\* hoursNum of a pasted row: the times when both are truthy, else the Hours
\* cell when it is truthy, else 0
pasteHoursNum(startTime, endTime, directHours) ==
    IF Truthy(startTime) /\ Truthy(endTime)
    THEN hoursFromTimes(startTime, endTime, "fuzzy")
    ELSE IF Truthy(directHours) THEN directHoursNum(directHours)
    ELSE [t |-> "h", v |-> 0]

\* one pass of the /api/parse-paste loop body; cols holds the six indices
pasteFuzzyRow(rawLine, delimiter, cols, zone) ==
    IF trim(rawLine) = "" THEN Skip
    ELSE With(trimmedCells(trim(rawLine), delimiter), LAMBDA cells :
        rowOutcome(cellOrEmpty(cells, cols.person1Index),
                   cellOrEmpty(cells, cols.person2Index),
                   cellOrEmpty(cells, cols.dateIndex),
                   pasteHoursNum(optionalCell(cells, cols.startTimeIndex),
                                 optionalCell(cells, cols.endTimeIndex),
                                 optionalCell(cells, cols.hoursIndex)),
                   zone))

\* one pass of the /api/upload loop body; row is a header-keyed object
\* hoursNum of a workbook row: the times when both are not null, else the
\* Hours cell when it is not null, else 0
uploadHoursNum(startTime, endTime, directHours) ==
    IF startTime /= Null /\ endTime /= Null
    THEN hoursFromTimes(startTime, endTime, "fuzzy")
    ELSE IF directHours /= Null THEN directHoursNum(directHours)
    ELSE [t |-> "h", v |-> 0]

\* one pass of the /api/upload loop body; row is a header-keyed object
uploadFuzzyRow(row, zone) ==
    rowOutcome(findColumnValue(row, Person1Names),
               findColumnValue(row, Person2Names),
               findColumnValue(row, DateNames),
               uploadHoursNum(findColumnValue(row, StartTimeNames),
                              findColumnValue(row, EndTimeNames),
                              findColumnValue(row, HoursNames)),
               zone)

\* the six column indices resolved from the header names
resolveColumns(headers) ==
    [person1Index   |-> findColumnIndex(headers, Person1Names),
     person2Index   |-> findColumnIndex(headers, Person2Names),
     dateIndex      |-> findColumnIndex(headers, DateNames),
     startTimeIndex |-> findColumnIndex(headers, StartTimeNames),
     endTimeIndex   |-> findColumnIndex(headers, EndTimeNames),
     hoursIndex     |-> findColumnIndex(headers, HoursNames)]

\* lines[0].split(delimiter).map(h => h.trim().toLowerCase())
pasteHeaders(text) ==
    With(splitLines(trim(text)), LAMBDA lines :
    With(split(lines[1], detectDelimiter(lines)), LAMBDA parts :
        [i \in 1..Len(parts) |-> toLowerCase(trim(parts[i]))]))

\* what the /api/parse-paste loop does with each line after the header
pasteFuzzyOutcomes(text, zone) ==
    With(splitLines(trim(text)), LAMBDA lines :
    With(resolveColumns(pasteHeaders(text)), LAMBDA cols :
        [i \in 1..(Len(lines) - 1) |->
            pasteFuzzyRow(lines[i + 1], detectDelimiter(lines), cols, zone)]))

\* POST /api/parse-paste, fuzzy-header revision
parsePasteFuzzy(text, zone) ==
    IF text = "" \/ trim(text) = "" THEN failure(400, MsgEmptyInput)
    ELSE With(resolveColumns(pasteHeaders(text)), LAMBDA cols :
        IF cols.person1Index = 0 - 1 \/ cols.person2Index = 0 - 1
           \/ cols.dateIndex = 0 - 1
        THEN failure(400, MsgMissingColumns)
        ELSE respond(collect(pasteFuzzyOutcomes(text, zone), 1, <<>>)))

\* XLSX.utils.sheet_to_json(worksheet, {raw: true, defval: ""}): the first
\* sheet row names the keys, every later row that has a non-blank cell
\* becomes an object with one entry per column
IsBlankRow(row) == \A i \in 1..Len(row) : row[i] = Str("")

\* the object of one data row: an entry per column of the header row
rowObject(keys, r) ==
    [c \in 1..Len(keys) |->
        <<String(keys[c]), IF c <= Len(r) THEN r[c] ELSE Str("")>>]

sheetToJson(sheet) ==
    IF Len(sheet) = 0 THEN <<>>
    ELSE With(SelectSeq(Tail(sheet), LAMBDA r : ~IsBlankRow(r)), LAMBDA data :
        [i \in 1..Len(data) |-> rowObject(sheet[1], data[i])])

\* what the /api/upload loop does with each row object
uploadFuzzyOutcomes(sheet, zone) ==
    With(sheetToJson(sheet), LAMBDA rawData :
        [i \in 1..Len(rawData) |-> uploadFuzzyRow(rawData[i], zone)])

\* POST /api/upload, fuzzy-header revision
uploadFuzzy(sheet, zone) ==
    IF Len(sheetToJson(sheet)) = 0 THEN failure(400, MsgNoData)
    ELSE respond(collect(uploadFuzzyOutcomes(sheet, zone), 1, <<>>))

----------------------------------------------------------------------------
(* The numbers of the Dashboard.  hours, youWorked, theyWorked and total   *)
(* are IEEE 754 doubles: a double is [neg, mag], mag its magnitude in      *)
(* units of 2^-60 written as three 24-bit limbs, least significant first.  *)
(* Every sum and difference is rounded to 53 significant bits, to nearest, *)
(* ties to even.                                                           *)

Limb == 2^24

magZero == <<0, 0, 0>>

magAdd(a, b) ==
    With(a[1] + b[1], LAMBDA s0 :
    With(a[2] + b[2] + s0 \div Limb, LAMBDA s1 :
        <<s0 % Limb, s1 % Limb, a[3] + b[3] + s1 \div Limb>>))

\* a - b for a >= b
magSub(a, b) ==
    With(IF a[1] < b[1] THEN 1 ELSE 0, LAMBDA b0 :
    With(IF a[2] - b[2] - b0 < 0 THEN 1 ELSE 0, LAMBDA b1 :
        <<a[1] - b[1] + b0 * Limb, a[2] - b[2] - b0 + b1 * Limb,
          a[3] - b[3] - b1>>))

magLess(a, b) ==
    \/ a[3] < b[3]
    \/ a[3] = b[3] /\ a[2] < b[2]
    \/ a[3] = b[3] /\ a[2] = b[2] /\ a[1] < b[1]

RECURSIVE bitLength(_)
bitLength(n) == IF n = 0 THEN 0 ELSE 1 + bitLength(n \div 2)

magBitLength(a) ==
    IF a[3] > 0 THEN 48 + bitLength(a[3])
    ELSE IF a[2] > 0 THEN 24 + bitLength(a[2])
    ELSE bitLength(a[1])

\* the magnitude rounded to 53 significant bits; sticky tells that the exact
\* value lies strictly above a
roundToDouble(a, sticky) ==
    With(magBitLength(a), LAMBDA n :
        IF n <= 53 THEN a
        ELSE With(2^(n - 53), LAMBDA step :
             With(a[1] % step, LAMBDA r :
                 IF \/ 2 * r > step
                    \/ 2 * r = step /\ (sticky \/ (a[1] \div step) % 2 = 1)
                 THEN magAdd(<<a[1] - r, a[2], a[3]>>, <<step, 0, 0>>)
                 ELSE <<a[1] - r, a[2], a[3]>>)))

zero == [neg |-> FALSE, mag |-> magZero]

\* x + y without rounding
exactSum(x, y) ==
    IF x.neg = y.neg THEN [neg |-> x.neg, mag |-> magAdd(x.mag, y.mag)]
    ELSE IF x.mag = y.mag THEN zero
    ELSE IF magLess(x.mag, y.mag)
    THEN [neg |-> y.neg, mag |-> magSub(y.mag, x.mag)]
    ELSE [neg |-> x.neg, mag |-> magSub(x.mag, y.mag)]

\* x + y and x - y of two doubles
add(x, y) ==
    With(exactSum(x, y), LAMBDA e :
        [neg |-> e.neg, mag |-> roundToDouble(e.mag, FALSE)])

subtract(x, y) == add(x, [neg |-> ~y.neg, mag |-> y.mag])

isNegative(x) == x.neg /\ x.mag /= magZero

\* the double a Trade carries for hours of k hundredths: the double nearest
\* to k / 100, as Math.round(hoursNum * 100) / 100 leaves it
hoursValue(k) ==
    With((k * 4096) % 100, LAMBDA r2 :
    With((r2 * Limb) % 100, LAMBDA r1 :
        [neg |-> FALSE,
         mag |-> roundToDouble(<<(r1 * Limb) \div 100, (r2 * Limb) \div 100,
                                 (k * 4096) \div 100>>,
                               (r1 * Limb) % 100 /= 0)]))

----------------------------------------------------------------------------
(* Reconciliation Aggregator: uniqueNames and summaryData of the Dashboard *)

\* code-unit order of the characters that occur in names
CharOrder == " 0123456789ABCDEFGHIJKLMNOPQRSTUVWXYZ_abcdefghijklmnopqrstuvwxyz"
CharRank(c) ==
    IF \E i \in 1..Len(CharOrder) : Ch(CharOrder, i) = c
    THEN CHOOSE i \in 1..Len(CharOrder) : Ch(CharOrder, i) = c ELSE 0

\* a < b in the default Array.prototype.sort order
RECURSIVE strLess(_, _)
strLess(a, b) ==
    IF b = "" THEN FALSE
    ELSE IF a = "" THEN TRUE
    ELSE IF Ch(a, 1) = Ch(b, 1) THEN strLess(Tail(a), Tail(b))
    ELSE CharRank(Ch(a, 1)) < CharRank(Ch(b, 1))

\* names.sort(): insertion of one name into an already sorted array
RECURSIVE insertName(_, _)
insertName(sorted, x) ==
    IF sorted = <<>> THEN <<x>>
    ELSE IF strLess(x, Head(sorted)) THEN <<x>> \o sorted
    ELSE <<Head(sorted)>> \o insertName(Tail(sorted), x)

RECURSIVE sortNames(_)
sortNames(list) ==
    IF list = <<>> THEN <<>>
    ELSE insertName(sortNames(SubSeq(list, 1, Len(list) - 1)), list[Len(list)])

\* .sort((a, b) => b.total - a.total): stable, largest total first
RECURSIVE insertByTotal(_, _)
insertByTotal(sorted, x) ==
    IF sorted = <<>> THEN <<x>>
    ELSE IF isNegative(subtract(Head(sorted).total, x.total))
    THEN <<x>> \o sorted
    ELSE <<Head(sorted)>> \o insertByTotal(Tail(sorted), x)

RECURSIVE sortByTotal(_)
sortByTotal(list) ==
    IF list = <<>> THEN <<>>
    ELSE insertByTotal(sortByTotal(SubSeq(list, 1, Len(list) - 1)),
                       list[Len(list)])

\* new Set() filled with person1, person2 of every trade, in insertion order
\* Set.prototype.add
addName(acc, n) ==
    IF \E i \in 1..Len(acc) : acc[i] = n THEN acc ELSE Append(acc, n)

RECURSIVE nameSet(_, _)
nameSet(list, acc) ==
    IF list = <<>> THEN acc
    ELSE nameSet(Tail(list),
                 addName(addName(acc, list[1].person1), list[1].person2))

uniqueNames(list) == sortNames(nameSet(list, <<>>))

\* addHours with the hours credited to youWorked of both persons
addHoursBothWorked(m, tr) ==
    [[m EXCEPT ![tr.person1].youWorked = add(@, hoursValue(tr.hours))]
        EXCEPT ![tr.person2].youWorked = add(@, hoursValue(tr.hours))]

\* addHours with the theyWorked credit skipped when a person trades with
\* themselves
addHoursSkipSelf(m, tr) ==
    IF tr.person1 = tr.person2
    THEN [m EXCEPT ![tr.person1].youWorked = add(@, hoursValue(tr.hours))]
    ELSE [[m EXCEPT ![tr.person1].youWorked = add(@, hoursValue(tr.hours))]
             EXCEPT ![tr.person2].theyWorked = add(@, hoursValue(tr.hours))]

\* the body of trades.forEach: youWorked of person1 and theyWorked of
\* person2 grow by the hours of the trade
addHours(m, tr) ==
    [[m EXCEPT ![tr.person1].youWorked = add(@, hoursValue(tr.hours))]
        EXCEPT ![tr.person2].theyWorked = add(@, hoursValue(tr.hours))]

\* the trades.forEach of summaryData: summaryMap after the first n trades
RECURSIVE summaryMap(_, _)
summaryMap(list, n) ==
    IF n = 0
    THEN [name \in {list[i].person1 : i \in 1..Len(list)}
                   \cup {list[i].person2 : i \in 1..Len(list)} |->
             [youWorked |-> zero, theyWorked |-> zero]]
    ELSE addHours(summaryMap(list, n - 1), list[n])

\* summaryData: one PersonSummary per name, sorted by total, largest first
summaryData(list) ==
    With(uniqueNames(list), LAMBDA names :
    With(summaryMap(list, Len(list)), LAMBDA m :
        sortByTotal([i \in 1..Len(names) |->
                        [name       |-> names[i],
                         youWorked  |-> m[names[i]].youWorked,
                         theyWorked |-> m[names[i]].theyWorked,
                         total      |-> subtract(m[names[i]].youWorked,
                                                 m[names[i]].theyWorked)]])))

----------------------------------------------------------------------------
(* Inputs.  A row is given by its six semantic cells; each entry point    *)
(* receives it laid out the way that entry point reads it.                 *)

Row(p1, date, start, end, p2, hours) ==
    [p1 |-> p1, date |-> date, start |-> start, end |-> end, p2 |-> p2,
     hours |-> hours]

BlankRow == Row(Str(""), Str(""), Str(""), Str(""), Str(""), Str(""))

GoodRow      == Row(Str("alice"), Str("1/2/2024"), Str("9:00 AM"),
                    Str("5:00 PM"), Str("Bob"), Str(""))
OvernightRow == Row(Str(" Bob "), Str("2024-01-03"), Str("22:00"),
                    Str("02:00"), Str("alice"), Str(""))
NoPerson2Row == Row(Str("alice"), Str("1/2/2024"), Str("9:00 AM"),
                    Str("5:00 PM"), Str(""), Str("8"))
DateWordRow  == Row(Str("alice"), Str("Trade Date"), Str("9:00 AM"),
                    Str("5:00 PM"), Str("Bob"), Str(""))
BadSerialRow == Row(Str("alice"), Num(FALSE, 200000000, 0), Str("9:00 AM"),
                    Str("5:00 PM"), Str("Bob"), Str(""))

\* rows that are tried in every position of a batch
CoreTextRows  == {GoodRow, OvernightRow, NoPerson2Row, DateWordRow, BlankRow}
CoreSheetRows == CoreTextRows \cup {BadSerialRow}

\* rows that are tried as the only row of a batch
TextRows ==
    CoreTextRows \cup
    { Row(Str("  "), Str("1/2/2024"), Str("9:00 AM"), Str("5:00 PM"),
          Str("Bob"), Str("")),
      Row(Str("Person 1"), Str("Trade Date"), Str("Trade Start Time"),
          Str("Trade End Time"), Str("Person 2"), Str("Hours")),
      Row(Str("alice"), Str("n/a"), Str("9:00 AM"), Str("5:00 PM"),
          Str("Bob"), Str("")),
      Row(Str("carol"), Str("1/2/2024"), Str("9:00:00"), Str("9:00:10"),
          Str("Bob"), Str("")),
      Row(Str("carol"), Str("1/2/2024"), Str(""), Str(""),
          Str("carol"), Str("30")),
      Row(Str("Bob"), Str("12/31/2024"), Str("9:00 AM"), Str(""),
          Str("alice"), Str("7.5 h")),
      Row(Str("Bob"), Str("12/31/2024"), Str("1/2/2024 11:00 PM"),
          Str("1/3/2024 7:00 AM"), Str("carol"), Str("")) }

\* a row dated by the spreadsheet serial n
SerialRow(n) == Row(Str("alice"), Num(FALSE, n, 0), Str("9:00 AM"),
                    Str("5:00 PM"), Str("Bob"), Str(""))

SheetRows ==
    TextRows \cup CoreSheetRows \cup
    { SerialRow(1), SerialRow(45658), Row(Str("Carol"), Num(FALSE, 45658, 0), Num(FALSE, 0, 250),
          Num(FALSE, 0, 750), Str("alice"), Str("")),
      Row(Num(FALSE, 7, 0), Num(FALSE, 2958466, 0), Num(FALSE, 45658, 750),
          Num(FALSE, 45659, 250), Str("Bob"), Num(FALSE, 12, 0)) }

Headers ==
    { <<"Person 1", "Trade Date", "Trade Start Time", "Trade End Time",
        "Person 2", "Hours">>,
      <<"Employee 1 Name", "Shift Date", "Start", "End", "Partner",
        "Duration">>,
      <<"Person 1", "Trade Date", "In", "Out", "Person 2", "Hours">>,
      <<"Person 1", "Trade Date", "Trade Start Time", "Trade End Time",
        "Colleague", "Hours">>,
      <<"Person 1", "When", "Trade Start Time", "Trade End Time",
        "Person 2", "Hours">> }

Delimiters == {"\t", ","}

TimeZones == {0, 60}

\* sequences of 0..n elements of S
RECURSIVE SeqsUpTo(_, _)
SeqsUpTo(S, n) ==
    IF n = 0 THEN {<<>>}
    ELSE With(SeqsUpTo(S, n - 1), LAMBDA shorter :
        shorter \cup {Append(q, x) : q \in shorter, x \in S})

\* the batches tried: every row alone, and every sequence of up to MaxRows
\* core rows
Batches(rows, core) == {<<r>> : r \in rows} \cup SeqsUpTo(core, MaxRows)

TextBatches  == Batches(TextRows, CoreTextRows)
SheetBatches == Batches(SheetRows, CoreSheetRows)

\* the row as columns A..K of a fixed-layout sheet (E, F, G, H, K are read)
fixedCells(r) ==
    IF r = BlankRow THEN <<>>
    ELSE <<Str("x"), Str("x"), Str("x"), Str("x"), r.p1, r.date, r.start,
           r.end, Str("x"), Str("x"), r.p2>>

\* the row under a six-column header
fuzzyCells(r) == <<r.p1, r.date, r.start, r.end, r.p2, r.hours>>

lineOf(cells, delimiter) ==
    join([i \in 1..Len(cells) |-> cells[i].s], delimiter)

textOf(lines) == join(lines, "\n")

\* the request a batch of rows makes at each entry point
pasteFixedRequest(rows, d) ==
    [endpoint |-> "paste", rev |-> "fixed",
     text |-> textOf([i \in 1..Len(rows) |-> lineOf(fixedCells(rows[i]), d)])]

uploadFixedRequest(rows) ==
    [endpoint |-> "upload", rev |-> "fixed",
     sheet |-> [i \in 1..Len(rows) |-> fixedCells(rows[i])]]

pasteFuzzyRequest(h, rows, d) ==
    [endpoint |-> "paste", rev |-> "fuzzy",
     text |-> textOf(<<join(h, d)>> \o
                     [i \in 1..Len(rows) |-> lineOf(fuzzyCells(rows[i]), d)])]

uploadFuzzyRequest(h, rows) ==
    [endpoint |-> "upload", rev |-> "fuzzy",
     sheet |-> <<[c \in 1..Len(h) |-> Str(h[c])]>> \o
               [i \in 1..Len(rows) |-> fuzzyCells(rows[i])]]

PasteFixedRequests ==
    { pasteFixedRequest(rows, d) : rows \in TextBatches, d \in Delimiters }

UploadFixedRequests ==
    { uploadFixedRequest(rows) : rows \in SheetBatches }

PasteFuzzyRequests ==
    { pasteFuzzyRequest(h, rows, d) :
        h \in Headers, rows \in TextBatches, d \in Delimiters }

UploadFuzzyRequests ==
    { uploadFuzzyRequest(h, rows) : h \in Headers, rows \in SheetBatches }

None == [t |-> "none"]

----------------------------------------------------------------------------
(* The Dashboard page as it mounts *)

\* useState initial values of the filter state; "" stands for undefined in
\* startDate and endDate
NoFilters ==
    [selectedName          |-> "all",
     startDate             |-> "",
     endDate               |-> "",
     searchQuery           |-> "",
     comparisonMode        |-> FALSE,
     selectedForComparison |-> <<>>]

Mounted ==
    /\ filters = NoFilters
    /\ isLoading = FALSE
    /\ mutations = <<>>

----------------------------------------------------------------------------
(* The server: one request, handled by the route it is posted to *)

Init ==
    /\ tz \in TimeZones
    /\ request \in PasteFixedRequests \cup UploadFixedRequests
                   \cup PasteFuzzyRequests \cup UploadFuzzyRequests
    /\ response = None
    /\ timeIn = None
    /\ timeOut = None
    /\ uploaded = <<>>
    /\ trades = <<>>
    /\ Mounted

ParsePasteFixed ==
    /\ response = None
    /\ request.endpoint = "paste" /\ request.rev = "fixed"
    /\ response' = parsePasteFixed(request.text, tz)
    /\ UNCHANGED <<tz, request, timeIn, timeOut, uploaded, trades,
                 filters, isLoading, mutations>>

UploadFixed ==
    /\ response = None
    /\ request.endpoint = "upload" /\ request.rev = "fixed"
    /\ response' = uploadFixed(request.sheet, tz)
    /\ UNCHANGED <<tz, request, timeIn, timeOut, uploaded, trades,
                 filters, isLoading, mutations>>

ParsePasteFuzzy ==
    /\ response = None
    /\ request.endpoint = "paste" /\ request.rev = "fuzzy"
    /\ response' = parsePasteFuzzy(request.text, tz)
    /\ UNCHANGED <<tz, request, timeIn, timeOut, uploaded, trades,
                 filters, isLoading, mutations>>

UploadFuzzy ==
    /\ response = None
    /\ request.endpoint = "upload" /\ request.rev = "fuzzy"
    /\ response' = uploadFuzzy(request.sheet, tz)
    /\ UNCHANGED <<tz, request, timeIn, timeOut, uploaded, trades,
                 filters, isLoading, mutations>>

Next == ParsePasteFixed \/ UploadFixed \/ ParsePasteFuzzy \/ UploadFuzzy

Spec == Init /\ [][Next]_vars

----------------------------------------------------------------------------
(* The Duration Calculator on its own: one pair of time cells *)

TimeValues ==
    { Str("9:00 AM"), Str("5:00 PM"), Str("22:00"), Str("02:00"),
      Str("12:00 AM"), Str("12:30 pm"), Str("9:00:00"), Str("9:00:10"),
      Str("13:00 PM"), Str("24:00"), Str("9:60"), Str("9 AM"), Str("1 PM"),
      Str("0.5"),
      Str("1"), Str("1.5"), Str("0.25abc"), Str("abc"), Str(""), Str("  "),
      Str("11/5/2025 6:00 PM"), Str("2025-01-15 14:30"),
      Str("1/1/2024 99:00"),
      Num(FALSE, 0, 250), Num(FALSE, 0, 750), Num(FALSE, 45658, 500),
      Num(TRUE, 0, 250), Num(FALSE, 1, 0), Num(FALSE, 0, 0),
      Null, Undef }

InitHours ==
    /\ timeIn \in [startTime : TimeValues, endTime : TimeValues,
                   rev : {"fixed", "fuzzy"}]
    /\ timeOut = None
    /\ tz = 0
    /\ request = None
    /\ response = None
    /\ uploaded = <<>>
    /\ trades = <<>>
    /\ Mounted

\* calculateHoursFromTimes(startTime, endTime) with what it read from each cell
hoursResult(in) ==
    [t            |-> "hours",
     startDecimal |-> timeDecimal(in.startTime, in.rev),
     endDecimal   |-> timeDecimal(in.endTime, in.rev),
     hours        |-> calculateHoursFromTimes(in.startTime, in.endTime, in.rev)]

CalculateFixed ==
    /\ timeOut = None
    /\ timeIn.rev = "fixed"
    /\ timeOut' = hoursResult(timeIn)
    /\ UNCHANGED <<tz, request, response, timeIn, uploaded, trades,
                 filters, isLoading, mutations>>

CalculateFuzzy ==
    /\ timeOut = None
    /\ timeIn.rev = "fuzzy"
    /\ timeOut' = hoursResult(timeIn)
    /\ UNCHANGED <<tz, request, response, timeIn, uploaded, trades,
                 filters, isLoading, mutations>>

NextHours == CalculateFixed \/ CalculateFuzzy

SpecHours == InitHours /\ [][NextHours]_vars

----------------------------------------------------------------------------
(* The Dashboard on its own: one Trade list handed to handleDataUpload *)

Trade(person1, person2, hours) ==
    [person1 |-> person1, date |-> "2024-01-02", hours |-> hours,
     person2 |-> person2]

TradePool ==
    { Trade("ALICE", "BOB", 10), Trade("ALICE", "CAROL", 20),
      Trade("CAROL", "ALICE", 30), Trade("BOB", "BOB", 150),
      Trade("BOB", "ALICE", 800), Trade("CAROL", "BOB", 2400),
      Trade("ALICE", "BOB", 800), Trade("BOB", "ALICE", 300) }

InitSummary ==
    /\ uploaded \in {withIds(list) : list \in SeqsUpTo(TradePool, MaxTrades)}
    /\ trades = <<>>
    /\ Mounted
    /\ tz = 0
    /\ request = None
    /\ response = None
    /\ timeIn = None
    /\ timeOut = None

\* handleDataUpload(uploadedTrades): setTrades(uploadedTrades) and the six
\* filter setters
HandleDataUpload ==
    /\ trades' = uploaded
    /\ filters' = NoFilters
    /\ UNCHANGED <<tz, request, response, timeIn, timeOut, uploaded,
                 isLoading, mutations>>

NextSummary == HandleDataUpload

SpecSummary == InitSummary /\ [][NextSummary]_vars

----------------------------------------------------------------------------
(* The server on rows whose two time cells name the same time of day *)

\* the requests that carry the given batches at the four entry points
requestsOf(textBatches, sheetBatches, headers) ==
    { pasteFixedRequest(rows, d) : rows \in textBatches, d \in Delimiters }
    \cup { uploadFixedRequest(rows) : rows \in sheetBatches }
    \cup { pasteFuzzyRequest(h, rows, d) :
             h \in headers, rows \in textBatches, d \in Delimiters }
    \cup { uploadFuzzyRequest(h, rows) : h \in headers, rows \in sheetBatches }

StandardHeader ==
    <<"Person 1", "Trade Date", "Trade Start Time", "Trade End Time",
      "Person 2", "Hours">>

SameClockRow    == Row(Str("alice"), Str("1/2/2024"), Str("9:00 AM"),
                       Str("09:00"), Str("Bob"), Str("8"))
SameDateTimeRow == Row(Str("Bob"), Str("1/2/2024"), Str("1/2/2024 11:00 PM"),
                       Str("1/3/2024 23:00"), Str("carol"), Str(""))
SameSerialRow   == Row(Str("carol"), Num(FALSE, 45658, 0),
                       Num(FALSE, 45658, 750), Num(FALSE, 45659, 750),
                       Str("alice"), Str(""))

SameTimeTextRows  == {GoodRow, SameClockRow, SameDateTimeRow}
SameTimeSheetRows == SameTimeTextRows \cup {SameSerialRow}

InitSameTime ==
    /\ tz \in TimeZones
    /\ request \in requestsOf(SeqsUpTo(SameTimeTextRows, MaxRows),
                              SeqsUpTo(SameTimeSheetRows, MaxRows),
                              {StandardHeader})
    /\ response = None
    /\ timeIn = None
    /\ timeOut = None
    /\ uploaded = <<>>
    /\ trades = <<>>
    /\ Mounted

SpecSameTime == InitSameTime /\ [][Next]_vars

----------------------------------------------------------------------------
(* End to end: the server answers, and the FileUpload component hands the *)
(* trades of a successful answer to the dashboard                          *)

ScenarioARow == Row(Str("ALICE"), Str("1/2/2024"), Str("9:00 AM"),
                    Str("5:00 PM"), Str("BOB"), Str(""))

EndToEndRows == {ScenarioARow, OvernightRow, NoPerson2Row}

InitEndToEnd ==
    /\ tz \in TimeZones
    /\ request \in requestsOf(SeqsUpTo(EndToEndRows, MaxRows),
                              SeqsUpTo(EndToEndRows, MaxRows),
                              {StandardHeader})
    /\ response = None
    /\ timeIn = None
    /\ timeOut = None
    /\ uploaded = <<>>
    /\ trades = <<>>
    /\ Mounted

\* onSuccess of uploadMutation and pasteMutation: onDataUpload(data.trades),
\* which is handleDataUpload: setTrades(uploadedTrades) and the filter
\* setters, then onSettled: setIsLoading(false); fetch resolves to onSuccess
\* only when response.ok
OnSuccess ==
    /\ response /= None
    /\ response.status = 200
    /\ uploaded = <<>>
    /\ uploaded' = response.trades
    /\ trades' = response.trades
    /\ filters' = NoFilters
    /\ isLoading' = FALSE
    /\ UNCHANGED <<tz, request, response, timeIn, timeOut, mutations>>

NextEndToEnd == Next \/ OnSuccess

SpecEndToEnd == InitEndToEnd /\ [][NextEndToEnd]_vars

----------------------------------------------------------------------------
(* The paste entry points on text whose lines do not all use one delimiter *)

\* sequences of exactly n elements of S
seqsOfLen(S, n) == {q \in SeqsUpTo(S, n) : Len(q) = n}

\* the text whose i-th line joins the i-th cell row with the i-th delimiter
mixedText(cellRows, delimiters) ==
    textOf([i \in 1..Len(cellRows) |-> lineOf(cellRows[i], delimiters[i])])

MixedRows == {GoodRow, OvernightRow}

MixedRequests ==
    { [endpoint |-> "paste", rev |-> "fixed",
       text |-> mixedText([i \in 1..Len(rows) |-> fixedCells(rows[i])], ds)] :
        rows \in SeqsUpTo(MixedRows, MaxRows) \ {<<>>},
        ds \in seqsOfLen(Delimiters, MaxRows) }
    \cup
    { [endpoint |-> "paste", rev |-> "fuzzy",
       text |-> mixedText(<<[c \in 1..Len(StandardHeader) |->
                               Str(StandardHeader[c])]>>
                          \o [i \in 1..Len(rows) |-> fuzzyCells(rows[i])],
                          ds)] :
        rows \in SeqsUpTo(MixedRows, MaxRows) \ {<<>>},
        ds \in seqsOfLen(Delimiters, MaxRows + 1) }

InitDelimiter ==
    /\ tz \in TimeZones
    /\ request \in MixedRequests
    /\ response = None
    /\ timeIn = None
    /\ timeOut = None
    /\ uploaded = <<>>
    /\ trades = <<>>
    /\ Mounted

NextDelimiter == ParsePasteFixed \/ ParsePasteFuzzy

SpecDelimiter == InitDelimiter /\ [][NextDelimiter]_vars

----------------------------------------------------------------------------
(* The fixed-index entry points on rows given cell by cell, columns A..K *)

PlainCells ==
    <<"x", "x", "x", "x", "alice", "1/2/2024", "9:00 AM", "5:00 PM", "x", "x",
      "Bob">>
\* names, dates and times also in the columns that are not read
DecoyCells ==
    <<"zed", "3/3/2023", "1:00 AM", "2:00 AM", "carol", "2024-01-03", "22:00",
      "02:00", "7", "yan", "alice">>
\* column A empty
EmptyFirstCells ==
    <<"", "x", "x", "x", "alice", "1/2/2024", "9:00 AM", "5:00 PM", "x", "x",
      "Bob">>
\* five cells only: nothing at index 5 or 10
ShortCells == <<"ALICE", "1/2/2024", "9:00 AM", "5:00 PM", "BOB">>
\* a header row that names the fields over other columns
HeaderCells ==
    <<"Person 1", "Trade Date", "Trade Start Time", "Trade End Time", "Name",
      "Trade Date", "Start", "End", "Hours", "Person 1", "Person 2">>

LayoutRows ==
    {PlainCells, DecoyCells, EmptyFirstCells, ShortCells, HeaderCells}

LayoutRequests ==
    { [endpoint |-> "paste", rev |-> "fixed",
       text |-> textOf([i \in 1..Len(rows) |-> join(rows[i], d)])] :
        rows \in SeqsUpTo(LayoutRows, MaxRows), d \in Delimiters }
    \cup
    { [endpoint |-> "upload", rev |-> "fixed",
       sheet |-> [i \in 1..Len(rows) |->
                     [c \in 1..Len(rows[i]) |-> Str(rows[i][c])]]] :
        rows \in SeqsUpTo(LayoutRows, MaxRows) }

InitFixedLayout ==
    /\ tz \in TimeZones
    /\ request \in LayoutRequests
    /\ response = None
    /\ timeIn = None
    /\ timeOut = None
    /\ uploaded = <<>>
    /\ trades = <<>>
    /\ Mounted

NextFixed == ParsePasteFixed \/ UploadFixed

SpecFixedLayout == InitFixedLayout /\ [][NextFixed]_vars

----------------------------------------------------------------------------
(* The server on header rows that name the fields in various ways *)

HeaderVariants ==
    { StandardHeader,
      <<"Employee 1 Name", "Shift Date", "Start", "End", "Partner",
        "Duration">>,
      \* two headers match Person A, and two match Person B
      <<"From", "  DATE ", "Time Start", "Time End", "To", "Employee to">>,
      \* "Total" contains the Person B synonym "to"
      <<"Person 1", "Trade Date", "Total", "End", "Person 2", "Hours">>,
      \* "Employee2" contains the Person A synonym "employee"
      <<"Employee2", "Date", "Start", "End", "Employee1", "Hours">>,
      \* no header matches anything
      <<"A", "B", "C", "D", "E", "F">> }

HeaderRows == {GoodRow, NoPerson2Row}

InitHeaders ==
    /\ tz \in TimeZones
    /\ request \in requestsOf(SeqsUpTo(HeaderRows, MaxRows),
                              SeqsUpTo(HeaderRows, MaxRows), HeaderVariants)
    /\ response = None
    /\ timeIn = None
    /\ timeOut = None
    /\ uploaded = <<>>
    /\ trades = <<>>
    /\ Mounted

SpecHeaders == InitHeaders /\ [][Next]_vars

----------------------------------------------------------------------------
(* The client: the FileUpload component posts requests and hands the trades *)
(* of each successful answer to the Dashboard page                          *)

MaxMutations == 2   \* mutate() calls of one session

CarolRow == Row(Str("carol"), Str("2024-01-03"), Str("9:00 AM"),
                Str("1:00 PM"), Str("dan"), Str(""))

\* what the user uploads or pastes: batches that load, one without a valid
\* row (400) and one whose date makes the server throw (500)
ClientRequests ==
    { uploadFixedRequest(<<GoodRow>>),
      uploadFixedRequest(<<CarolRow>>),
      uploadFixedRequest(<<BadSerialRow>>),
      pasteFixedRequest(<<OvernightRow>>, "\t"),
      pasteFixedRequest(<<NoPerson2Row>>, ",") }

\* the response of the route the request is posted to
serverAnswer(req, zone) ==
    IF req.endpoint = "paste"
    THEN IF req.rev = "fixed" THEN parsePasteFixed(req.text, zone)
         ELSE parsePasteFuzzy(req.text, zone)
    ELSE IF req.rev = "fixed" THEN uploadFixed(req.sheet, zone)
         ELSE uploadFuzzy(req.sheet, zone)

ServerAnswers ==
    [req \in ClientRequests |-> [zone \in TimeZones |-> serverAnswer(req, zone)]]

\* values the user gives the date pickers and the search box; "" is the
\* cleared value
PickedDates == {"", "2024-01-02"}
SearchQueries == {"", "ali"}

\* filter settings a user has made on a loaded list: a name filtered, both
\* dates and the search box set, every name compared
filtersSetOn(list) ==
    [selectedName          |-> uniqueNames(list)[1],
     startDate             |-> "2024-01-02",
     endDate               |-> "2024-01-02",
     searchQuery           |-> "ali",
     comparisonMode        |-> TRUE,
     selectedForComparison |-> uniqueNames(list)]

\* the page as the user turns to the FileUpload: just mounted, or showing an
\* earlier batch with filters set on it
InitClient ==
    /\ tz \in TimeZones
    /\ request = None
    /\ response = None
    /\ timeIn = None
    /\ timeOut = None
    /\ isLoading = FALSE
    /\ mutations = <<>>
    /\ \/ /\ uploaded = <<>>
          /\ trades = <<>>
          /\ filters = NoFilters
       \/ /\ uploaded = ServerAnswers[uploadFixedRequest(<<GoodRow>>)][tz].trades
          /\ trades = uploaded
          /\ filters = filtersSetOn(trades)

hasData == Len(trades) > 0

\* the FileUpload instances on the page: the one in the header, and the
\* large one of the empty state while there is no data
Instances == IF hasData THEN {"header"} ELSE {"header", "large"}

\* mutation.isPending of an instance's uploadMutation or pasteMutation: its
\* latest mutate() call has not settled
latestOf(via, endpoint) ==
    {i \in 1..Len(mutations) :
        /\ mutations[i].via = via
        /\ mutations[i].request.endpoint = endpoint
        /\ \A j \in (i + 1)..Len(mutations) :
              ~(mutations[j].via = via
                /\ mutations[j].request.endpoint = endpoint)}

pendingAt(via, endpoint) ==
    \E i \in latestOf(via, endpoint) : mutations[i].status = "pending"

\* uploadMutation.isPending || pasteMutation.isPending || isLoading
isPending(via) ==
    pendingAt(via, "upload") \/ pendingAt(via, "paste") \/ isLoading

\* mutation.mutate(variables): onMutate runs setIsLoading(true) and the
\* request is sent
Mutate(via, req) ==
    /\ Len(mutations) < MaxMutations
    /\ mutations' = Append(mutations,
                           [via |-> via, request |-> req, status |-> "pending"])
    /\ isLoading' = TRUE
    /\ UNCHANGED <<tz, request, response, timeIn, timeOut, uploaded, trades,
                   filters>>

\* handleDrop, and handleChange after a click on the drop zone: the drop
\* zone of the large instance is never disabled
HandleDrop ==
    /\ "large" \in Instances
    /\ \E req \in ClientRequests :
          req.endpoint = "upload" /\ Mutate("large", req)

\* handleChange after a click on the Upload button of the header instance:
\* disabled={isPending}
HandleChange ==
    /\ ~isPending("header")
    /\ \E req \in ClientRequests :
          req.endpoint = "upload" /\ Mutate("header", req)

\* handlePasteSubmit in the paste dialog of an instance: the dialog opens
\* from a button with disabled={isPending} and is modal, and handlePasteSubmit
\* returns early on blank text
HandlePasteSubmit ==
    \E via \in Instances :
        /\ ~isPending(via)
        /\ \E req \in ClientRequests :
              req.endpoint = "paste" /\ trim(req.text) /= "" /\ Mutate(via, req)

\* onSettled without setIsLoading(false)
onSettledKept(loading) == loading

\* setIsLoading(false) of onSettled
onSettled(loading) == FALSE

\* handleDataUpload without its filter setters
dataUploadFiltersKept(prev) == prev

\* the filter state after handleDataUpload
dataUploadFilters(prev) == NoFilters

\* the response arrives with response.ok: onSuccess calls
\* onDataUpload(data.trades), then onSettled
SettleSuccess ==
    \E i \in 1..Len(mutations) :
        /\ mutations[i].status = "pending"
        /\ ServerAnswers[mutations[i].request][tz].status = 200
        /\ mutations' = [mutations EXCEPT ![i].status = "success"]
        /\ uploaded' = ServerAnswers[mutations[i].request][tz].trades
        /\ trades' = ServerAnswers[mutations[i].request][tz].trades
        /\ filters' = dataUploadFilters(filters)
        /\ isLoading' = onSettled(isLoading)
        /\ UNCHANGED <<tz, request, response, timeIn, timeOut>>

\* the response arrives without response.ok: the mutation function throws,
\* onError shows a toast, then onSettled
SettleError ==
    \E i \in 1..Len(mutations) :
        /\ mutations[i].status = "pending"
        /\ ServerAnswers[mutations[i].request][tz].status /= 200
        /\ mutations' = [mutations EXCEPT ![i].status = "error"]
        /\ isLoading' = onSettled(isLoading)
        /\ UNCHANGED <<tz, request, response, timeIn, timeOut, uploaded,
                       trades, filters>>

NextClient ==
    \/ HandleDrop
    \/ HandleChange
    \/ HandlePasteSubmit
    \/ SettleSuccess
    \/ SettleError

SpecClient == InitClient /\ [][NextClient]_vars

-----------------------------------------------------------------------------
(* The Dashboard page: the batches it is handed and the filter controls the *)
(* user works in between                                                    *)

InitDashboard ==
    /\ tz \in TimeZones
    /\ request = None
    /\ response = None
    /\ timeIn = None
    /\ timeOut = None
    /\ uploaded = <<>>
    /\ trades = <<>>
    /\ Mounted

\* onDataUpload(data.trades) of a FileUpload whose request has succeeded
DataUploaded ==
    /\ \E req \in ClientRequests :
          /\ ServerAnswers[req][tz].status = 200
          /\ uploaded' = ServerAnswers[req][tz].trades
          /\ trades' = ServerAnswers[req][tz].trades
    /\ filters' = dataUploadFilters(filters)
    /\ UNCHANGED <<tz, request, response, timeIn, timeOut, isLoading,
                   mutations>>

\* the names offered by the name filter and the comparison selector
offeredNames == {uniqueNames(trades)[i] : i \in 1..Len(uniqueNames(trades))}

\* onValueChange={setSelectedName} of the name filter select
SetSelectedName ==
    /\ hasData
    /\ \E name \in {"all"} \cup offeredNames :
          filters' = [filters EXCEPT !.selectedName = name]
    /\ UNCHANGED <<tz, request, response, timeIn, timeOut, uploaded, trades,
                   isLoading, mutations>>

\* onSelect={setStartDate} of the From calendar
SetStartDate ==
    /\ hasData
    /\ \E d \in PickedDates : filters' = [filters EXCEPT !.startDate = d]
    /\ UNCHANGED <<tz, request, response, timeIn, timeOut, uploaded, trades,
                   isLoading, mutations>>

\* onSelect={setEndDate} of the To calendar
SetEndDate ==
    /\ hasData
    /\ \E d \in PickedDates : filters' = [filters EXCEPT !.endDate = d]
    /\ UNCHANGED <<tz, request, response, timeIn, timeOut, uploaded, trades,
                   isLoading, mutations>>

\* onChange of the search box, and its clear button
SetSearchQuery ==
    /\ hasData
    /\ \E q \in SearchQueries : filters' = [filters EXCEPT !.searchQuery = q]
    /\ UNCHANGED <<tz, request, response, timeIn, timeOut, uploaded, trades,
                   isLoading, mutations>>

\* the Compare button without setSelectedForComparison([])
toggleComparisonModeKeeping(prev) ==
    [prev EXCEPT !.comparisonMode = ~prev.comparisonMode]

\* onClick of the Compare button: setComparisonMode(!comparisonMode), and
\* setSelectedForComparison([]) when the mode was on
toggleComparisonMode(prev) ==
    [prev EXCEPT !.comparisonMode = ~prev.comparisonMode,
                 !.selectedForComparison =
                     IF prev.comparisonMode THEN <<>>
                     ELSE prev.selectedForComparison]

ToggleComparisonMode ==
    /\ hasData
    /\ filters' = toggleComparisonMode(filters)
    /\ UNCHANGED <<tz, request, response, timeIn, timeOut, uploaded, trades,
                   isLoading, mutations>>

without(name, x) == x /= name

\* toggleComparison(name): remove the name when it is selected, else append
toggleComparison(prev, name) ==
    IF \E i \in 1..Len(prev) : prev[i] = name
    THEN SelectSeq(prev, LAMBDA x : without(name, x))
    ELSE Append(prev, name)

ToggleComparison ==
    /\ hasData
    /\ filters.comparisonMode
    /\ \E name \in offeredNames :
          filters' = [filters EXCEPT !.selectedForComparison =
                                         toggleComparison(@, name)]
    /\ UNCHANGED <<tz, request, response, timeIn, timeOut, uploaded, trades,
                   isLoading, mutations>>

hasActiveFilters ==
    \/ filters.selectedName /= "all"
    \/ filters.startDate /= ""
    \/ filters.endDate /= ""
    \/ trim(filters.searchQuery) /= ""
    \/ filters.comparisonMode

\* clearFilters, behind the Clear filters button
ClearFilters ==
    /\ hasData
    /\ hasActiveFilters
    /\ filters' = NoFilters
    /\ UNCHANGED <<tz, request, response, timeIn, timeOut, uploaded, trades,
                   isLoading, mutations>>

NextDashboard ==
    \/ DataUploaded
    \/ SetSelectedName
    \/ SetStartDate
    \/ SetEndDate
    \/ SetSearchQuery
    \/ ToggleComparisonMode
    \/ ToggleComparison
    \/ ClearFilters

SpecDashboard == InitDashboard /\ [][NextDashboard]_vars

----------------------------------------------------------------------------
(* Claims.  What a request asks for, read off the request itself *)

Answered == response /= None

Succeeded == Answered /\ response.success

\* the outcome of every row of the request, in input order
outcomesOf(req, zone) ==
    IF req.endpoint = "paste"
    THEN IF req.rev = "fixed" THEN pasteFixedOutcomes(req.text, zone)
         ELSE pasteFuzzyOutcomes(req.text, zone)
    ELSE IF req.rev = "fixed" THEN uploadFixedOutcomes(req.sheet, zone)
         ELSE uploadFuzzyOutcomes(req.sheet, zone)

IsAccepted(outcome) == outcome.kind = "accept"

acceptedOf(req, zone) == SelectSeq(outcomesOf(req, zone), IsAccepted)

\* the header names a fuzzy-header request carries
headersOf(req) ==
    IF req.endpoint = "paste" THEN pasteHeaders(req.text)
    ELSE [c \in 1..Len(req.sheet[1]) |-> String(req.sheet[1][c])]

requiredUnresolved(req) ==
    LET cols == resolveColumns(headersOf(req))
    IN  \/ cols.person1Index = 0 - 1
        \/ cols.person2Index = 0 - 1
        \/ cols.dateIndex = 0 - 1

\* the request supplies no text or no rows at all
suppliesNothing(req) ==
    IF req.endpoint = "paste" THEN trim(req.text) = ""
    ELSE IF req.rev = "fixed" THEN Len(req.sheet) = 0
    ELSE Len(sheetToJson(req.sheet)) = 0

\* the text occurs in the request as (part of) a raw cell
requestHasText(req, text) ==
    IF req.endpoint = "paste" THEN includes(req.text, text)
    ELSE \E i \in 1..Len(req.sheet) :
            \E c \in 1..Len(req.sheet[i]) : req.sheet[i][c] = Str(text)

\* YYYY-MM-DD
IsIsoDate(s) ==
    /\ Len(s) = 10
    /\ Ch(s, 5) = "-" /\ Ch(s, 8) = "-"
    /\ \A i \in {1, 2, 3, 4, 6, 7, 9, 10} : IsDigit(Ch(s, i))

\* +YYYYYY-MM-DD or -YYYYYY-MM-DD, the form of years outside 0000..9999
IsExpandedIsoDate(s) ==
    /\ Len(s) = 13
    /\ Ch(s, 1) \in {"+", "-"}
    /\ Ch(s, 8) = "-" /\ Ch(s, 11) = "-"
    /\ \A i \in {2, 3, 4, 5, 6, 7, 9, 10, 12, 13} : IsDigit(Ch(s, i))

\* the sum of total over the first n records, without rounding
RECURSIVE SumTotals(_, _)
SumTotals(summaries, n) ==
    IF n = 0 THEN zero
    ELSE exactSum(summaries[n].total, SumTotals(summaries, n - 1))

RECURSIVE SumHours(_, _)
SumHours(list, n) ==
    IF n = 0 THEN 0 ELSE list[n].hours + SumHours(list, n - 1)

----------------------------------------------------------------------------
C2_HoursAtMost24 ==
    Succeeded => \A k \in 1..Len(response.trades) :
                    response.trades[k].hours <= 2400

\* C3: every Trade of a successful response has a stored (rounded) hours
\* value strictly greater than 0.
C3_StoredHoursPositive ==
    Succeeded => \A k \in 1..Len(response.trades) :
                    response.trades[k].hours > 0

\* C4: every Trade of a successful response has non-empty person1 and
\* person2, each equal to its own trimmed upper-case form.
C4_NamesCanonical ==
    Succeeded =>
        \A k \in 1..Len(response.trades) :
            LET tr == response.trades[k]
            IN  /\ tr.person1 /= "" /\ tr.person2 /= ""
                /\ toUpperCase(trim(tr.person1)) = tr.person1
                /\ toUpperCase(trim(tr.person2)) = tr.person2

\* C5 as stated: every Trade of a successful response has a date of the form
\* YYYY-MM-DD.
C5_DateIsIso ==
    Succeeded => \A k \in 1..Len(response.trades) :
                    IsIsoDate(response.trades[k].date)

\* C5 as amended: every Trade of a successful response has a date that is
\* YYYY-MM-DD (or the signed six-digit-year form for years outside
\* 0000..9999), or else is raw Date text of the request that cannot be read
\* as a date, passed through unchanged.
C5_DateIsIsoOrPassedThrough ==
    Succeeded =>
        \A k \in 1..Len(response.trades) :
            LET d == response.trades[k].date
            IN  \/ IsIsoDate(d)
                \/ IsExpandedIsoDate(d)
                \/ newDate(d, tz) = NaN /\ requestHasText(request, d)

\* a Trade carries Date text of the request that cannot be read as a date
C5_Witness ==
    /\ Succeeded
    /\ \E k \in 1..Len(response.trades) :
          LET d == response.trades[k].date
          IN  ~IsIsoDate(d) /\ newDate(d, tz) = NaN
                            /\ requestHasText(request, d)

\* C6: each time the Duration Calculator reads a cell, the Time Parser gives
\* InvalidTime or a fraction of a day f with 0 <= f < 1.
C6_FractionInRange ==
    timeOut /= None =>
        \A d \in {timeOut.startDecimal, timeOut.endDecimal} :
            d = InvalidTime \/ (0 <= d /\ d < Day)

\* C7: in every mode a Trade never carries a Date made only of letters and
\* whitespace: such a row is skipped as a header row.
C7_HeaderRowSkipped ==
    Succeeded => \A k \in 1..Len(response.trades) :
                    ~looksLikeHeader(response.trades[k].date)

\* C8 as stated: success only with at least one Trade; with zero Accepted
\* rows the response is a failure with the NoValidRows message and no trades.
C8_NoValidRows ==
    Answered =>
        /\ response.success => Len(response.trades) >= 1
        /\ Len(acceptedOf(request, tz)) = 0 =>
              /\ ~response.success
              /\ "trades" \notin DOMAIN response
              /\ response.message = MsgNoValidRows

\* the failure a batch with no Accepted row ends in: the first of the
\* batch-level steps that fails
failureOfEmptyBatch(req, zone) ==
    IF suppliesNothing(req)
    THEN IF req.endpoint = "paste" THEN MsgEmptyInput ELSE MsgNoData
    ELSE IF req.endpoint = "paste" /\ req.rev = "fuzzy"
            /\ requiredUnresolved(req)
    THEN MsgMissingColumns
    ELSE IF LET outcomes == outcomesOf(req, zone)
            IN  \E i \in DOMAIN outcomes : outcomes[i].kind = "throw"
    THEN MsgFault
    ELSE MsgNoValidRows

\* C8 as amended: success only with at least one Trade; with zero Accepted
\* rows the response is a failure without trades, whose message is that of
\* the first batch-level step that failed: EmptyInput, MissingRequiredColumns
\* (fuzzy paste), an internal fault, and otherwise NoValidRows.
C8_FailureWithoutTrades ==
    Answered =>
        /\ response.success => Len(response.trades) >= 1
        /\ Len(acceptedOf(request, tz)) = 0 =>
              /\ ~response.success
              /\ "trades" \notin DOMAIN response
              /\ response.message = failureOfEmptyBatch(request, tz)

\* a batch of two or more rows, none Accepted, answered with NoValidRows
C8_Witness ==
    /\ Answered
    /\ Len(outcomesOf(request, tz)) >= 2
    /\ Len(acceptedOf(request, tz)) = 0
    /\ ~response.success
    /\ response.message = MsgNoValidRows

\* C9: a fuzzy-header request with data rows whose header names resolve no
\* column for Person A, Person B or Date fails with MissingRequiredColumns
\* and carries no Trade, for paste and for workbook.
C9_MissingRequiredColumns ==
    (Answered /\ request.rev = "fuzzy" /\ ~suppliesNothing(request)
              /\ requiredUnresolved(request)) =>
        /\ ~response.success
        /\ "trades" \notin DOMAIN response
        /\ response.message = MsgMissingColumns

\* C10: the Trades of a successful response are the Accepted rows of the
\* request, one Trade each, in input order.
C10_InputOrder ==
    Succeeded =>
        LET accepted == acceptedOf(request, tz)
        IN  /\ Len(response.trades) = Len(accepted)
            /\ \A k \in 1..Len(accepted) :
                  LET out == response.trades[k]
                      tr  == accepted[k].trade
                  IN  /\ out.person1 = tr.person1
                      /\ out.person2 = tr.person2
                      /\ out.date = tr.date
                      /\ out.hours = tr.hours

\* two different Accepted rows answered with their two Trades
C10_Witness ==
    /\ Succeeded
    /\ Len(response.trades) >= 2
    /\ response.trades[1].person1 /= response.trades[2].person1

----------------------------------------------------------------------------
\* C11: when both cells give a time of day and the end is earlier than the
\* start, the Duration Calculator returns 24 hours less (start - end); for
\* "22:00" and "02:00" it returns 4 hours.
C11_OvernightWraparound ==
    timeOut /= None =>
        /\ (/\ 0 <= timeOut.endDecimal
            /\ timeOut.endDecimal < timeOut.startDecimal
            /\ timeOut.startDecimal < Day)
           => timeOut.hours
                 = 24 * Hour - (timeOut.startDecimal - timeOut.endDecimal)
        /\ (timeIn.startTime = Str("22:00") /\ timeIn.endTime = Str("02:00"))
           => timeOut.hours = 4 * Hour

\* the calculator has answered 4 hours for "22:00" to "02:00"
C11_Witness ==
    /\ timeOut /= None
    /\ timeIn.startTime = Str("22:00") /\ timeIn.endTime = Str("02:00")
    /\ timeOut.endDecimal < timeOut.startDecimal
    /\ timeOut.hours = 4 * Hour

\* C13: the Duration Calculator never returns more than 24 hours, and when
\* both cells give a time value and the end lies more than 24 hours after
\* the start it returns exactly 24.
C13_CappedAt24 ==
    timeOut /= None =>
        /\ timeOut.hours <= 24 * Hour
        /\ (/\ timeOut.startDecimal /= InvalidTime
            /\ timeOut.endDecimal /= InvalidTime
            /\ timeOut.endDecimal - timeOut.startDecimal > Day)
           => timeOut.hours = 24 * Hour

\* the calculator has cut a difference of more than 24 hours down to 24
C13_Witness ==
    /\ timeOut /= None
    /\ timeOut.startDecimal /= InvalidTime
    /\ timeOut.endDecimal /= InvalidTime
    /\ timeOut.endDecimal - timeOut.startDecimal > Day
    /\ timeOut.hours = 24 * Hour

\* the Start Time and End Time cells each row of the request is read with,
\* in the order of outcomesOf
timeCellsOf(req) ==
    IF req.endpoint = "paste"
    THEN With(splitLines(trim(req.text)), LAMBDA lines :
         IF req.rev = "fixed"
         THEN [i \in 1..Len(lines) |->
                 With(split(trim(lines[i]), detectDelimiter(lines)),
                      LAMBDA cells :
                     <<trimmedOrEmpty(cells, START_TIME_COL),
                       trimmedOrEmpty(cells, END_TIME_COL)>>)]
         ELSE With(resolveColumns(pasteHeaders(req.text)), LAMBDA cols :
              [i \in 1..(Len(lines) - 1) |->
                 With(trimmedCells(trim(lines[i + 1]), detectDelimiter(lines)),
                      LAMBDA cells :
                     <<optionalCell(cells, cols.startTimeIndex),
                       optionalCell(cells, cols.endTimeIndex)>>)]))
    ELSE IF req.rev = "fixed"
    THEN [i \in 1..Len(req.sheet) |->
             <<cellAt(req.sheet[i], START_TIME_COL),
               cellAt(req.sheet[i], END_TIME_COL)>>]
    ELSE With(sheetToJson(req.sheet), LAMBDA rawData :
         [i \in 1..Len(rawData) |->
             <<findColumnValue(rawData[i], StartTimeNames),
               findColumnValue(rawData[i], EndTimeNames)>>])

\* both cells resolve, and to the same fraction of a day
sameTimeOfDay(cells, rev) ==
    /\ timeDecimal(cells[1], rev) /= InvalidTime
    /\ timeDecimal(cells[1], rev) = timeDecimal(cells[2], rev)

\* the rows of the request whose two time cells resolve to the same time
sameTimeRows(req) ==
    LET cells == timeCellsOf(req)
    IN  {i \in DOMAIN cells : sameTimeOfDay(cells[i], req.rev)}

\* C12: a row whose start and end resolve to the same time of day is
\* discarded: its outcome is a skip, the response carries at most one Trade
\* per other row, and a batch of such rows only is not a success.
C12_SameTimeDiscarded ==
    Answered =>
        LET same     == sameTimeRows(request)
            outcomes == outcomesOf(request, tz)
        IN  /\ \A i \in same : outcomes[i] = Skip
            /\ Succeeded =>
                  Len(response.trades) <= Len(outcomes) - Cardinality(same)
            /\ Cardinality(same) = Len(outcomes) => ~response.success

\* a same-time row and an ordinary row in one batch: one Trade comes back
C12_Witness ==
    /\ Succeeded
    /\ Len(outcomesOf(request, tz)) = 2
    /\ Cardinality(sameTimeRows(request)) = 1
    /\ Len(response.trades) = 1

\* the request is scenario A: the one row ALICE, 1/2/2024, 9:00 AM, 5:00 PM,
\* BOB in columns E, F, G, H, K, posted to a fixed-index entry point
IsScenarioA(req) ==
    \/ req = uploadFixedRequest(<<ScenarioARow>>)
    \/ \E d \in Delimiters : req = pasteFixedRequest(<<ScenarioARow>>, d)

\* C14: scenario A is answered with exactly one Trade, ALICE for BOB on
\* 2024-01-02 for 8 hours, and the dashboard's summary of it is ALICE
\* {youWorked 8, theyWorked 0, total 8} and BOB {youWorked 0, theyWorked 8,
\* total -8}.
C14_ScenarioA ==
    (IsScenarioA(request) /\ Answered) =>
        /\ response.success
        /\ Len(response.trades) = 1
        /\ response.trades[1].person1 = "ALICE"
        /\ response.trades[1].person2 = "BOB"
        /\ response.trades[1].date = "2024-01-02"
        /\ response.trades[1].hours = 800
        /\ trades /= <<>> =>
              {summaryData(trades)[i] : i \in 1..Len(summaryData(trades))}
                 = { [name |-> "ALICE", youWorked |-> hoursValue(800),
                      theyWorked |-> zero, total |-> hoursValue(800)],
                     [name |-> "BOB", youWorked |-> zero,
                      theyWorked |-> hoursValue(800),
                      total |-> [neg |-> TRUE, mag |-> hoursValue(800).mag]] }

\* the workbook equivalent of pasted text: one sheet row per line, one text
\* cell per delimited field, header line first
sheetOfText(text) ==
    LET lines == splitLines(text)
    IN  [i \in 1..Len(lines) |->
            LET parts == split(lines[i], detectDelimiter(lines))
            IN  [c \in 1..Len(parts) |-> Str(parts[c])]]

\* two responses agree: the same success flag and, when successful, Trades
\* equal one by one in person1, date, hours and person2
sameResult(a, b) ==
    /\ a.success = b.success
    /\ a.success =>
          /\ Len(a.trades) = Len(b.trades)
          /\ \A k \in 1..Len(a.trades) :
                /\ a.trades[k].person1 = b.trades[k].person1
                /\ a.trades[k].date = b.trades[k].date
                /\ a.trades[k].hours = b.trades[k].hours
                /\ a.trades[k].person2 = b.trades[k].person2

\* C15: the answer to pasted text with a header line is the answer the
\* workbook entry point gives to the equivalent sheet.
C15_PasteEqualsWorkbook ==
    (Answered /\ request.endpoint = "paste" /\ request.rev = "fuzzy") =>
        sameResult(response, uploadFuzzy(sheetOfText(request.text), tz))

\* the hours of the first n trades in which the name stands in the given
\* field, added up in list order
RECURSIVE hoursWhere(_, _, _, _)
hoursWhere(list, field, name, n) ==
    IF n = 0 THEN zero
    ELSE IF list[n][field] = name
    THEN add(hoursWhere(list, field, name, n - 1), hoursValue(list[n].hours))
    ELSE hoursWhere(list, field, name, n - 1)

namesOf(list) ==
    {list[i].person1 : i \in 1..Len(list)}
    \cup {list[i].person2 : i \in 1..Len(list)}

\* C16: the summary has exactly one record per name that occurs as person1
\* or person2; its youWorked is the sum of the hours of the trades where the
\* name is person1, its theyWorked the sum where it is person2, its total
\* youWorked - theyWorked; Alice->Bob 8h and Bob->Alice 3h give 5 and -5.
C16_PersonSummaries ==
    LET summaries == summaryData(trades)
    IN  /\ Len(summaries) = Cardinality(namesOf(trades))
        /\ {summaries[i].name : i \in 1..Len(summaries)} = namesOf(trades)
        /\ \A i \in 1..Len(summaries) :
              /\ summaries[i].youWorked
                    = hoursWhere(trades, "person1", summaries[i].name,
                                 Len(trades))
              /\ summaries[i].theyWorked
                    = hoursWhere(trades, "person2", summaries[i].name,
                                 Len(trades))
              /\ summaries[i].total
                    = subtract(summaries[i].youWorked, summaries[i].theyWorked)
        /\ (/\ Len(trades) = 2
            /\ trades[1].person1 = "ALICE" /\ trades[1].person2 = "BOB"
            /\ trades[1].hours = 800
            /\ trades[2].person1 = "BOB" /\ trades[2].person2 = "ALICE"
            /\ trades[2].hours = 300)
           => /\ summaries[1].name = "ALICE"
              /\ summaries[1].total = hoursValue(500)
              /\ summaries[2].name = "BOB"
              /\ summaries[2].total = [neg |-> TRUE, mag |-> hoursValue(500).mag]

\* the dashboard holds Alice->Bob 8h and Bob->Alice 3h
C16_Witness ==
    /\ Len(trades) = 2
    /\ trades[1].person1 = "ALICE" /\ trades[1].person2 = "BOB"
    /\ trades[1].hours = 800
    /\ trades[2].person1 = "BOB" /\ trades[2].person2 = "ALICE"
    /\ trades[2].hours = 300
    /\ summaryData(trades)[1].total = hoursValue(500)

\* the request is a workbook whose only data row is the given row
carriesOnly(req, row) ==
    \/ req = uploadFixedRequest(<<row>>)
    \/ \E h \in Headers : req = uploadFuzzyRequest(h, <<row>>)

\* C17 as stated: a row dated by the serial 1 is answered with the date "1900-01-01",
\* a row dated by the serial 45658 with the date "2024-12-31".
C17_SerialDates ==
    Succeeded =>
        /\ carriesOnly(request, SerialRow(1))
              => response.trades[1].date = "1900-01-01"
        /\ carriesOnly(request, SerialRow(45658))
              => response.trades[1].date = "2024-12-31"

\* C17 as amended: the date is the UTC calendar date of local midnight of
\* 1899-12-30 plus the serial in days: on a host at UTC the serial 1 gives
\* "1899-12-31" and the serial 45658 gives "2025-01-01"; on a host east of
\* UTC each is one day earlier.
C17_SerialDatesFromEpoch ==
    Succeeded =>
        /\ carriesOnly(request, SerialRow(1))
              => response.trades[1].date
                    = (IF tz > 0 THEN "1899-12-30" ELSE "1899-12-31")
        /\ carriesOnly(request, SerialRow(45658))
              => response.trades[1].date
                    = (IF tz > 0 THEN "2024-12-31" ELSE "2025-01-01")

\* a workbook row dated by the serial 1 has been answered with a Trade
C17_Witness ==
    /\ Succeeded
    /\ carriesOnly(request, SerialRow(1))
    /\ Len(response.trades) = 1
    /\ response.trades[1].date = "1899-12-31"

\* tab if any line of the text contains a tab, comma otherwise
delimiterOfText(text) == IF includes(text, "\t") THEN "\t" ELSE ","

\* the answer to pasted text when every line is split on the delimiter d
pasteAnswerWith(req, d, zone) ==
    LET lines == splitLines(trim(req.text))
        parts == split(lines[1], d)
        cols  == resolveColumns([i \in 1..Len(parts) |->
                                    toLowerCase(trim(parts[i]))])
    IN  IF trim(req.text) = "" THEN failure(400, MsgEmptyInput)
        ELSE IF req.rev = "fixed"
        THEN respond(collect([i \in 1..Len(lines) |->
                                 pasteFixedRow(lines[i], d, zone)], 1, <<>>))
        ELSE IF cols.person1Index = 0 - 1 \/ cols.person2Index = 0 - 1
                \/ cols.dateIndex = 0 - 1
        THEN failure(400, MsgMissingColumns)
        ELSE respond(collect([i \in 1..(Len(lines) - 1) |->
                                 pasteFuzzyRow(lines[i + 1], d, cols, zone)],
                             1, <<>>))

\* C18: pasted text is answered as if every line were split on tab when any
\* line contains a tab, and on comma otherwise, also when the first line has
\* no tab but a later line has one.
C18_DelimiterOfAnyLine ==
    (Answered /\ request.endpoint = "paste") =>
        response = pasteAnswerWith(request, delimiterOfText(request.text), tz)

\* the cells of every row as the request supplies them: the delimited fields
\* of each line of pasted text, the cells of each sheet row
suppliedCells(req) ==
    IF req.endpoint = "paste"
    THEN LET lines == splitLines(req.text)
         IN  [i \in 1..Len(lines) |->
                LET parts == split(lines[i], detectDelimiter(lines))
                IN  [c \in 1..Len(parts) |-> Str(trim(parts[c]))]]
    ELSE req.sheet

\* what becomes of a row when its five fields are the cells at the indices
\* 4, 5, 6, 7 and 10
fixedIndexOutcome(cells, zone) ==
    IF ~(Truthy(cellAt(cells, 4)) /\ Truthy(cellAt(cells, 5))
         /\ Truthy(cellAt(cells, 10))) THEN Skip
    ELSE IF IsStr(cellAt(cells, 5)) /\ looksLikeHeader(trim(cellAt(cells, 5).s))
    THEN Skip
    ELSE pushTrade(cellAt(cells, 4), cellAt(cells, 10), cellAt(cells, 5),
                   hoursFromTimes(cellAt(cells, 6), cellAt(cells, 7), "fixed"),
                   zone)

\* C19: in fixed-index mode every row is decided by its cells at the indices
\* 4, 5, 6, 7 and 10 (Person A, Date, Start Time, End Time, Person B),
\* whatever the other cells hold; a row without a cell at index 4, 5 or 10
\* is not Accepted.
C19_FixedIndices ==
    (Answered /\ request.rev = "fixed") =>
        LET cells    == suppliedCells(request)
            outcomes == outcomesOf(request, tz)
        IN  /\ Len(outcomes) = Len(cells)
            /\ \A i \in 1..Len(cells) :
                  /\ outcomes[i] = fixedIndexOutcome(cells[i], tz)
                  /\ Len(cells[i]) < 11 => outcomes[i] = Skip
            /\ Succeeded =>
                  Len(response.trades) = Len(SelectSeq(outcomes, IsAccepted))

\* the 0-based index of the lowest-index header that, trimmed and
\* lower-cased, equals or contains a synonym of the list; -1 when none does
lowestMatch(headers, synonyms) ==
    LET hits == {i \in 1..Len(headers) :
                    \E n \in 1..Len(synonyms) :
                        includes(toLowerCase(trim(headers[i])), synonyms[n])}
    IN  IF hits = {} THEN 0 - 1
        ELSE (CHOOSE i \in hits : \A j \in hits : i <= j) - 1

lowestMatches(headers) ==
    [person1Index   |-> lowestMatch(headers, Person1Names),
     person2Index   |-> lowestMatch(headers, Person2Names),
     dateIndex      |-> lowestMatch(headers, DateNames),
     startTimeIndex |-> lowestMatch(headers, StartTimeNames),
     endTimeIndex   |-> lowestMatch(headers, EndTimeNames),
     hoursIndex     |-> lowestMatch(headers, HoursNames)]

\* the cell of a workbook row object under the column of the given index,
\* null when the field is absent
cellUnder(row, index) == IF index = 0 - 1 THEN Null ELSE row[index + 1][2]

\* the outcome of every row when its fields are read from the columns cols
outcomesUnder(req, cols, zone) ==
    IF req.endpoint = "paste"
    THEN LET lines == splitLines(trim(req.text))
         IN  [i \in 1..(Len(lines) - 1) |->
                pasteFuzzyRow(lines[i + 1], detectDelimiter(lines), cols, zone)]
    ELSE LET rawData == sheetToJson(req.sheet)
         IN  [i \in 1..Len(rawData) |->
                rowOutcome(cellUnder(rawData[i], cols.person1Index),
                           cellUnder(rawData[i], cols.person2Index),
                           cellUnder(rawData[i], cols.dateIndex),
                           uploadHoursNum(
                               cellUnder(rawData[i], cols.startTimeIndex),
                               cellUnder(rawData[i], cols.endTimeIndex),
                               cellUnder(rawData[i], cols.hoursIndex)),
                           zone)]

\* C20: in fuzzy-header mode every field is read from the lowest-index
\* header that, trimmed and lower-cased, equals or contains a synonym of the
\* field, and is absent when no header does: the rows are decided, and the
\* Trades built, from those columns.
C20_LowestMatchingHeader ==
    (Answered /\ request.rev = "fuzzy" /\ ~suppliesNothing(request)) =>
        LET cols     == lowestMatches(headersOf(request))
            expected == outcomesUnder(request, cols, tz)
        IN  /\ outcomesOf(request, tz) = expected
            /\ response.success =>
                  /\ Len(response.trades) = Len(SelectSeq(expected, IsAccepted))
                  /\ \A k \in 1..Len(response.trades) :
                        /\ response.trades[k].person1
                              = SelectSeq(expected, IsAccepted)[k].trade.person1
                        /\ response.trades[k].person2
                              = SelectSeq(expected, IsAccepted)[k].trade.person2
                        /\ response.trades[k].hours
                              = SelectSeq(expected, IsAccepted)[k].trade.hours
            /\ (request.endpoint = "paste"
                /\ (cols.person1Index = 0 - 1 \/ cols.person2Index = 0 - 1
                    \/ cols.dateIndex = 0 - 1)) => ~response.success

\* a header "Employee 1 Name" has been resolved to Person A: the row under
\* it came back as a Trade of ALICE
C20_Witness ==
    /\ Succeeded
    /\ request.rev = "fuzzy"
    /\ \E c \in 1..Len(headersOf(request)) :
          toLowerCase(trim(headersOf(request)[c])) = "employee 1 name"
    /\ lowestMatches(headersOf(request)).person1Index = 0
    /\ response.trades[1].person1 = "ALICE"

\* the hour of a bare time token after AM/PM normalization: 12 AM -> 0,
\* 12 PM -> 12, any other PM hour + 12
normalizedHour(m) ==
    IF m.period = "AM" /\ m.hours = 12 THEN 0
    ELSE IF m.period = "PM" /\ m.hours /= 12 THEN m.hours + 12
    ELSE m.hours

\* the text cell is a bare time token H:MM[:SS] [AM|PM]
bareToken(cell) ==
    IF IsStr(cell) THEN timeMatch(toUpperCase(trim(cell.s)), TRUE)
    ELSE [ok |-> FALSE]

\* C22: a bare time token H:MM[:SS] [AM|PM] is given a time of day only
\* when its hour after AM/PM normalization lies in 0..23 and its minute and
\* second lie in 0..59; every other bare token, a PM suffix on an hour from
\* 13 to 23 included, fails with InvalidTime.
C22_NormalizedHourInRange ==
    timeOut /= None =>
        \A side \in {"start", "end"} :
            LET cell == IF side = "start" THEN timeIn.startTime
                        ELSE timeIn.endTime
                d    == IF side = "start" THEN timeOut.startDecimal
                        ELSE timeOut.endDecimal
                m    == bareToken(cell)
            IN  (m.ok /\ d /= InvalidTime) =>
                    /\ normalizedHour(m) \in 0..23
                    /\ m.minutes \in 0..59
                    /\ m.seconds \in 0..59

\* the token is in its entirety a decimal number: digits with at most one
\* decimal point
wholeDecimal(str) ==
    /\ \A i \in 1..Len(str) : IsDigit(Ch(str, i)) \/ Ch(str, i) = "."
    /\ \E i \in 1..Len(str) : IsDigit(Ch(str, i))
    /\ Cardinality({i \in 1..Len(str) : Ch(str, i) = "."}) <= 1

\* the token is of one of the three accepted kinds
acceptedKind(str) ==
    \/ dateTimeMatch(str).ok
    \/ timeMatch(str, TRUE).ok
    \/ wholeDecimal(str) /\ decimalTime(str) /= InvalidTime

\* C23: a text time token that is neither a combined date+time, nor a bare
\* H:MM[:SS] [AM|PM] time, nor in its entirety a decimal number in [0,1]
\* fails with InvalidTime, also when it starts with a number in [0,1].
C23_OtherTokensInvalid ==
    timeOut /= None =>
        \A side \in {"start", "end"} :
            LET cell == IF side = "start" THEN timeIn.startTime
                        ELSE timeIn.endTime
                d    == IF side = "start" THEN timeOut.startDecimal
                        ELSE timeOut.endDecimal
            IN  (IsStr(cell) /\ ~acceptedKind(toUpperCase(trim(cell.s))))
                    => d = InvalidTime

\* the six fields of every data row of a fuzzy-header request, read from the
\* resolved columns: null when the column is absent, undefined when the row
\* is too short
fieldsUnder(cells, cols) ==
    [person1   |-> optionalCell(cells, cols.person1Index),
     person2   |-> optionalCell(cells, cols.person2Index),
     date      |-> optionalCell(cells, cols.dateIndex),
     startTime |-> optionalCell(cells, cols.startTimeIndex),
     endTime   |-> optionalCell(cells, cols.endTimeIndex),
     hours     |-> optionalCell(cells, cols.hoursIndex)]

rowFieldsOf(req) ==
    LET cols == lowestMatches(headersOf(req))
    IN  IF req.endpoint = "paste"
        THEN LET lines == splitLines(trim(req.text))
             IN  [i \in 1..(Len(lines) - 1) |->
                    fieldsUnder(IF trim(lines[i + 1]) = "" THEN <<>>
                                ELSE trimmedCells(trim(lines[i + 1]),
                                                  detectDelimiter(lines)),
                                cols)]
        ELSE LET rawData == sheetToJson(req.sheet)
             IN  [i \in 1..Len(rawData) |->
                    fieldsUnder([c \in 1..Len(rawData[i]) |-> rawData[i][c][2]],
                                cols)]

missingOrEmpty(v) == v \in {Null, Undef, Str("")}

\* the row's outcome when its hours are hoursNum
outcomeWith(f, hoursNum, zone) ==
    IF missingOrEmpty(f.person1) \/ missingOrEmpty(f.person2)
       \/ missingOrEmpty(f.date)
    THEN Skip
    ELSE rowOutcome(f.person1, f.person2, f.date, hoursNum, zone)

\* C24: in fuzzy-header mode, at the paste and at the workbook entry point,
\* a row with both Start Time and End Time present is decided by the hours
\* computed from the two times, whatever its Hours cell holds; a row whose
\* Start or End Time is missing or empty and whose Hours cell parses to a
\* positive number is Accepted with that Hours value.
C24_HoursSelection ==
    (Answered /\ request.rev = "fuzzy" /\ ~suppliesNothing(request)
     /\ ~(request.endpoint = "paste" /\ requiredUnresolved(request))) =>
        LET rows == rowFieldsOf(request)
            outs == outcomesOf(request, tz)
        IN  \A i \in 1..Len(rows) :
                LET f == rows[i]
                IN  IF ~missingOrEmpty(f.startTime) /\ ~missingOrEmpty(f.endTime)
                    THEN outs[i] = outcomeWith(f,
                            hoursFromTimes(f.startTime, f.endTime, "fuzzy"), tz)
                    ELSE (/\ ~missingOrEmpty(f.hours)
                          /\ IsAccepted(outcomeWith(f, directHoursNum(f.hours),
                                                    tz)))
                         => outs[i] = outcomeWith(f, directHoursNum(f.hours), tz)

\* the pasted request that carries line i of the data lines alone: the line
\* itself in fixed-index mode, the header line and the line in fuzzy-header
\* mode (so that the resolved columns stay the same)
aloneRequest(req, i) ==
    LET lines == splitLines(trim(req.text))
    IN  IF req.rev = "fixed" THEN [req EXCEPT !.text = lines[i]]
        ELSE [req EXCEPT !.text = lines[1] \o "\n" \o lines[i + 1]]

\* C25: the outcome of a pasted row (Accepted or not, and the person1, date,
\* hours and person2 of its Trade) is the outcome the same row has when it is
\* pasted alone, whatever the other lines of the batch are, the first line
\* of fixed-index text included.
C25_RowsIndependent ==
    (Answered /\ request.endpoint = "paste" /\ ~suppliesNothing(request)) =>
        LET outs == outcomesOf(request, tz)
        IN  \A i \in 1..Len(outs) :
                outs[i] = outcomesOf(aloneRequest(request, i), tz)[1]

\* C26: in fuzzy-header mode, whenever Person A, Person B and Date all
\* resolve, they resolve to three pairwise different columns: no header is
\* used for two fields.
C26_DistinctColumns ==
    (Answered /\ request.rev = "fuzzy" /\ ~suppliesNothing(request)) =>
        LET cols == resolveColumns(headersOf(request))
        IN  (/\ cols.person1Index /= 0 - 1
             /\ cols.person2Index /= 0 - 1
             /\ cols.dateIndex /= 0 - 1)
            => /\ cols.person1Index /= cols.person2Index
               /\ cols.person1Index /= cols.dateIndex
               /\ cols.person2Index /= cols.dateIndex

\* C27: the date the Date Normalizer gives a row is the same calendar date
\* on every host: the outcome of each row of an answered request, computed
\* with any other time-zone offset, carries the same date.
C27_DateSameInEveryZone ==
    (Answered /\ ~suppliesNothing(request)
     /\ ~(request.rev = "fuzzy" /\ request.endpoint = "paste"
          /\ requiredUnresolved(request))) =>
        LET here == outcomesOf(request, tz)
        IN  \A zone \in TimeZones :
                LET there == outcomesOf(request, zone)
                IN  \A i \in 1..Len(here) :
                        (IsAccepted(here[i]) /\ IsAccepted(there[i]))
                            => here[i].trade.date = there[i].trade.date

\* mutation i goes from pending to the given status in this step
settles(i, status) ==
    /\ i \in 1..Len(mutations)
    /\ Len(mutations') = Len(mutations)
    /\ mutations[i].status = "pending"
    /\ mutations'[i].status = status

\* the trades of the server's answer to mutation i
batchOf(i) == ServerAnswers[mutations[i].request][tz].trades

\* C21: when an ingestion succeeds, the client's trade list becomes exactly
\* the new batch and every filter is reset: name filter "all", start and end
\* date cleared, search query empty, comparison mode off, comparison
\* selection empty.
C21_SuccessReplacesAndResets ==
    [][\A i \in 1..Len(mutations) :
          settles(i, "success") =>
              /\ trades' = batchOf(i)
              /\ filters'.selectedName = "all"
              /\ filters'.startDate = ""
              /\ filters'.endDate = ""
              /\ filters'.searchQuery = ""
              /\ filters'.comparisonMode = FALSE
              /\ filters'.selectedForComparison = <<>>]_vars

\* two different batches have been loaded one after the other: the list is
\* one of them, none of its Trades is in the other, and the filters are reset
C21_Witness ==
    \E i, j \in 1..Len(mutations) :
        /\ mutations[i].status = "success"
        /\ mutations[j].status = "success"
        /\ batchOf(i) /= batchOf(j)
        /\ trades = batchOf(j)
        /\ \A k \in 1..Len(trades) :
              \A l \in 1..Len(batchOf(i)) :
                  trades[k].person1 /= batchOf(i)[l].person1
        /\ filters = NoFilters

\* C28: when an upload or paste request fails (a batch-level failure
\* response or a server fault), the client's trade list and all filter
\* settings are left as they were and the loading flag is false again.
C28_FailureLeavesState ==
    [][\A i \in 1..Len(mutations) :
          settles(i, "error") =>
              /\ trades' = trades
              /\ filters' = filters
              /\ isLoading' = FALSE]_vars

\* a request has failed while trades were loaded and filters were set, and
\* they are still there
C28_Witness ==
    /\ \E i \in 1..Len(mutations) :
          /\ mutations[i].status = "error"
          /\ ServerAnswers[mutations[i].request][tz].status \in {400, 500}
    /\ trades /= <<>>
    /\ filters.selectedName /= "all"
    /\ filters.searchQuery /= ""
    /\ ~isLoading

\* the names that occur in the current trades
namesInTrades ==
    {trades[k].person1 : k \in 1..Len(trades)}
        \cup {trades[k].person2 : k \in 1..Len(trades)}

\* C29: in every reachable dashboard state the comparison selection is empty
\* whenever comparison mode is off, every name in the comparison selection
\* occurs in the current trades, and the name filter is "all" or a name that
\* occurs in the current trades.
C29_FilterStateConsistent ==
    /\ ~filters.comparisonMode => filters.selectedForComparison = <<>>
    /\ \A k \in 1..Len(filters.selectedForComparison) :
          filters.selectedForComparison[k] \in namesInTrades
    /\ filters.selectedName \in {"all"} \cup namesInTrades

\* on the batch of a later upload a name is filtered and two names are
\* selected for comparison
C29_Witness ==
    /\ trades = ServerAnswers[uploadFixedRequest(<<CarolRow>>)][tz].trades
    /\ filters.comparisonMode
    /\ Len(filters.selectedForComparison) = 2
    /\ filters.selectedName /= "all"

\* C30: once two requests of the client have both settled, the displayed
\* trade list is the result of the request that was submitted last, whatever
\* the order in which the two responses arrived.
C30_LastSubmittedWins ==
    (/\ Len(mutations) = 2
     /\ \A i \in 1..2 : mutations[i].status /= "pending"
     /\ mutations[2].status = "success")
        => trades = batchOf(2)

====
